---- MODULE Spec2Model ----
(***************************************************************************)
(* PDFEngine (src/src/engine/html-to-pdf.js, lines 296-835): the render    *)
(* session that walks a document specification, dispatches every element   *)
(* to its renderer and finishes with the page-numbering pass.              *)
(*                                                                         *)
(* Lengths are in milli-points (1 pt = 1000), so that the line heights of  *)
(* the standard fonts (1.156 and 1.19 times the font size) and half-line   *)
(* advances stay integers.  Font sizes are in points; every other length   *)
(* of an element is in milli-points and moveDown/lines are in thousandths  *)
(* of a line.  An attribute an element does not carry is a field the       *)
(* record does not have.                                                   *)
(***************************************************************************)
EXTENDS Integers, Sequences, FiniteSets, TLC

(* ---------------------------------------------------------------------- *)
(*  Bounds of the model                                                   *)
(* ---------------------------------------------------------------------- *)

\* The number of top-level elements of a specification.
MaxElems == 2

(* ---------------------------------------------------------------------- *)
(*  Small helpers                                                         *)
(* ---------------------------------------------------------------------- *)

Pt(n) == n * 1000

Max(a, b) == IF a >= b THEN a ELSE b

Has(el, f) == f \in DOMAIN el

\* el.f || d  for a number: undefined and 0 are falsy.
NumOr(el, f, d) == IF Has(el, f) /\ el[f] # 0 THEN el[f] ELSE d

\* el.f || d  for a string: undefined and "" are falsy.
StrOr(el, f, d) == IF Has(el, f) /\ el[f] # "" THEN el[f] ELSE d

\* el.f ?? d : only undefined is replaced.
Nullish(el, f, d) == IF Has(el, f) THEN el[f] ELSE d

\* A boolean attribute read for its truthiness (undefined is falsy).
Truthy(el, f) == Has(el, f) /\ el[f] = TRUE

RECURSIVE SumSeq(_)
SumSeq(s) == IF s = <<>> THEN 0 ELSE s[1] + SumSeq(Tail(s))

IsPrefix(s, t) == Len(s) <= Len(t) /\ SubSeq(t, 1, Len(s)) = s

\* An object literal without fields, and a field that is set only when c holds.
Empty == [f \in {} |-> 0]

Opt(f, c, v) == IF c THEN f :> v ELSE Empty

(* ---------------------------------------------------------------------- *)
(*  Engine defaults (constructor)                                         *)
(* ---------------------------------------------------------------------- *)

defaultFontSize == 12

defaultFont == "Helvetica"

\* size "A4": 595.28 x 841.89 points.
PageWidth == 595280

PageHeight == 841890

MarginTop == Pt(50)

MarginBottom == Pt(50)

MarginLeft == Pt(50)

MarginRight == Pt(50)

\* doc.page.maxY(): the bottom bound of the content area.
ContentBottom == PageHeight - MarginBottom

\* doc.page.width - doc.page.margins.left - doc.page.margins.right
ContentWidth == PageWidth - MarginLeft - MarginRight

(* ---------------------------------------------------------------------- *)
(*  The drawing library as the engine drives it (PDFDocument of pdfkit).  *)
(*  A document is the buffered pages (each the sequence of primitives     *)
(*  and annotations put on it), the current page, the cursor and the      *)
(*  current font, size and fill colour.                                   *)
(* ---------------------------------------------------------------------- *)

NoTag == [part |-> "none"]

\* new PDFDocument({autoFirstPage: true, bufferPages: true})
NewDocument ==
  [pages |-> << <<>> >>, cur |-> 1, x |-> MarginLeft, y |-> MarginTop,
   font |-> "Helvetica", fontSize |-> 12, fillColor |-> "black"]

\* doc.currentLineHeight(true): ascender + line gap - descender.
LineHeight(font, size) ==
  size * (IF font = "Helvetica-Bold" THEN 1190 ELSE 1156)

\* doc.currentLineHeight(): the height of a link put on a line of text.
GlyphHeight(font, size) == size * 925

\* doc.widthOfString: half an em per character.
TextWidth(str, size) == Len(str) * size * 500

\* The lines a string is wrapped into within a width.
NumLines(str, size, width) ==
  IF Len(str) = 0 THEN 0
  ELSE IF width <= 0 THEN Len(str)
  ELSE (TextWidth(str, size) + width - 1) \div width

Emit(doc, op) == [doc EXCEPT !.pages[doc.cur] = Append(@, op)]

\* doc.font(f).fontSize(s).fillColor(c)
DocFont(doc, font, size, color) ==
  [doc EXCEPT !.font = font, !.fontSize = size, !.fillColor = color]

\* doc.addPage(): the page is appended to the buffer and becomes current.
DocAddPage(doc) ==
  [doc EXCEPT !.pages = Append(@, <<>>), !.cur = Len(doc.pages) + 1,
              !.x = MarginLeft, !.y = MarginTop]

\* doc.switchToPage(i), i 0-based.
DocSwitchToPage(doc, i) == [doc EXCEPT !.cur = i + 1]

\* doc.moveDown(lines), lines in thousandths.
DocMoveDown(doc, lines) ==
  [doc EXCEPT !.y = @ + (LineHeight(doc.font, doc.fontSize) * lines) \div 1000]

\* doc.link(x, y, w, h, url): a clickable region on the current page.
DocLink(doc, x, y, w, h, url, tag) ==
  Emit(doc, [op |-> "annot", x |-> x, y |-> y, w |-> w, h |-> h,
             url |-> url, tag |-> tag])

\* doc.rect(x, y, w, h).fill(color)
DocFillRect(doc, x, y, w, h, color, tag) ==
  Emit(doc, [op |-> "rect", x |-> x, y |-> y, w |-> w, h |-> h,
             color |-> color, tag |-> tag])

\* doc.moveTo(x1, y).lineTo(x2, y).stroke()
DocStrokeLine(doc, x1, x2, y, tag) ==
  Emit(doc, [op |-> "line", x |-> x1, y |-> y, w |-> x2 - x1, h |-> 0,
             tag |-> tag])

\* The text wrapper moving on to a new page: the page is added, the cursor
\* goes to its top margin and keeps the column the text started in.
ContinueOnNewPage(doc, startX) == [DocAddPage(doc) EXCEPT !.x = startX]

\* Lines j..k of one text write.  After a line that is not the last one the
\* wrapper moves on to a new page when the next line does not fit.
RECURSIVE TextLines(_, _, _, _)
TextLines(doc, j, k, c) ==
  IF j > k THEN doc
  ELSE
    LET lineW == IF j < k THEN c.width
                 ELSE TextWidth(c.str, doc.fontSize) - (k - 1) * c.width
        d1 == Emit(doc, [op |-> "text", str |-> c.str, line |-> j,
                         x |-> doc.x, y |-> doc.y, w |-> c.width,
                         h |-> c.lh,
                         font |-> doc.font, size |-> doc.fontSize,
                         color |-> doc.fillColor, link |-> c.link,
                         underline |-> c.underline, align |-> c.align,
                         indent |-> IF j = 1 THEN c.indent ELSE 0,
                         tag |-> c.tag])
        d2 == IF c.link # ""
              THEN DocLink(d1, doc.x, doc.y, lineW,
                           GlyphHeight(doc.font, doc.fontSize), c.link,
                           [part |-> "textlink", of |-> c.tag])
              ELSE d1
        d3 == [d2 EXCEPT !.y = @ + c.lh]
        d4 == IF j < k /\ d3.y + c.lh > ContentBottom
              THEN ContinueOnNewPage(d3, c.startX) ELSE d3
    IN TextLines(d4, j + 1, k, c)

\* doc.text(str, opts): written at the cursor, wrapped within opts.width
\* (default: up to the right margin).  The wrapper first makes sure the
\* first line fits above the bottom of the content area, and moves on to a
\* new page when it does not.
DocText(doc, str, opts, tag) ==
  LET width == IF Has(opts, "width") THEN Max(opts.width, 0)
               ELSE Max(PageWidth - doc.x - MarginRight, 0)
      lh == LineHeight(doc.font, doc.fontSize)
      c == [str |-> str, width |-> width, lh |-> lh, startX |-> doc.x,
            link |-> StrOr(opts, "link", ""),
            underline |-> Truthy(opts, "underline"),
            align |-> StrOr(opts, "align", "left"),
            indent |-> NumOr(opts, "indent", 0), tag |-> tag]
      d0 == IF doc.y + lh > ContentBottom
            THEN ContinueOnNewPage(doc, doc.x) ELSE doc
  IN TextLines(d0, 1, NumLines(str, doc.fontSize, width), c)

\* doc.text(str, x, y, opts): the cursor is moved to (x, y) first.
DocTextAt(doc, str, x, y, opts, tag) ==
  DocText([doc EXCEPT !.x = x, !.y = y], str, opts, tag)

(* ---------------------------------------------------------------------- *)
(*  PDFEngine: utilities                                                  *)
(* ---------------------------------------------------------------------- *)

\* _applyFont(doc, el)
ApplyFont(doc, el) ==
  DocFont(doc, StrOr(el, "font", defaultFont),
          NumOr(el, "fontSize", defaultFontSize),
          StrOr(el, "color", "#000000"))

\* _textOptions(el): only the attributes the element carries (and that are
\* truthy) are passed on.  strike, oblique, lineGap and continued are passed
\* on the same way; no element of the inputs carries them.
TextOptions(el) ==
  Opt("align", StrOr(el, "align", "") # "", StrOr(el, "align", ""))
  @@ Opt("width", NumOr(el, "width", 0) # 0, NumOr(el, "width", 0))
  @@ Opt("link", StrOr(el, "link", "") # "", StrOr(el, "link", ""))
  @@ Opt("underline", Truthy(el, "underline"), TRUE)
  @@ Opt("indent", NumOr(el, "indent", 0) # 0, NumOr(el, "indent", 0))

\* _autoColumnWidths(doc, count)
AutoColumnWidths(count) ==
  IF count = 0 THEN <<>> ELSE [i \in 1..count |-> ContentWidth \div count]

(* ---------------------------------------------------------------------- *)
(*  PDFEngine: element renderers                                          *)
(* ---------------------------------------------------------------------- *)

\* _renderText
RenderText(doc, el) ==
  LET d1 == ApplyFont(doc, el)
      d2 == DocText(d1, StrOr(el, "value", ""), TextOptions(el), NoTag)
  IN IF NumOr(el, "moveDown", 0) # 0 THEN DocMoveDown(d2, el.moveDown) ELSE d2

\* The level -> size table of _renderHeading.
HeadingSize(level) ==
  CASE level = 1 -> 26 [] level = 2 -> 22 [] level = 3 -> 18
    [] level = 4 -> 16 [] level = 5 -> 14 [] level = 6 -> 12
    [] OTHER -> 18

\* _renderHeading
RenderHeading(doc, el) ==
  LET level == NumOr(el, "level", 1)
      fontSize == NumOr(el, "fontSize", HeadingSize(level))
      d1 == ApplyFont(doc, ("fontSize" :> fontSize)
                           @@ ("font" :> StrOr(el, "font", "Helvetica-Bold"))
                           @@ el)
      d2 == DocText(d1, StrOr(el, "value", ""), TextOptions(el), NoTag)
  IN DocMoveDown(d2, Nullish(el, "moveDown", 500))

\* Mutant: the URL handed to the text write as its link option.
StealthTextOptionsLeaky(el) ==
  Opt("align", StrOr(el, "align", "") # "", StrOr(el, "align", ""))
  @@ Opt("width", NumOr(el, "width", 0) # 0, NumOr(el, "width", 0))
  @@ Opt("link", StrOr(el, "url", "") # "", StrOr(el, "url", ""))
  @@ Opt("underline", Truthy(el, "underline"), TRUE)

\* The options _renderStealthLink builds for its text write: no link.
StealthTextOptions(el) ==
  Opt("align", StrOr(el, "align", "") # "", StrOr(el, "align", ""))
  @@ Opt("width", NumOr(el, "width", 0) # 0, NumOr(el, "width", 0))
  @@ Opt("underline", Truthy(el, "underline"), TRUE)

\* _renderStealthLink
RenderStealthLink(doc, el) ==
  LET d1 == DocFont(doc, StrOr(el, "font", defaultFont),
                    NumOr(el, "fontSize", defaultFontSize),
                    StrOr(el, "color", "#000000"))
      startX == d1.x
      startY == d1.y
      d2 == DocText(d1, StrOr(el, "value", ""), StealthTextOptions(el),
                    [part |-> "stealth"])
      d3 == IF StrOr(el, "url", "") # ""
            THEN DocLink(d2, startX, startY,
                         NumOr(el, "width", ContentWidth),
                         d2.y - startY, el.url, [part |-> "stealth"])
            ELSE d2
  IN IF NumOr(el, "moveDown", 0) # 0 THEN DocMoveDown(d3, el.moveDown) ELSE d3

\* Mutant: the stealth link keeps the link colour and underline of a
\* regular link as its defaults.
StealthPatchLinkStyle(el) ==
  ("color" :> StrOr(el, "color", "#1a0dab"))
  @@ ("underline" :> Nullish(el, "underline", TRUE))
  @@ el

\* The element _renderLink hands to the stealth renderer.
StealthPatch(el) ==
  ("color" :> StrOr(el, "color", "#000000"))
  @@ ("underline" :> Nullish(el, "underline", FALSE))
  @@ el

\* _renderLink
RenderLink(doc, el) ==
  IF Truthy(el, "stealth") THEN RenderStealthLink(doc, StealthPatch(el))
  ELSE
    LET d1 == DocFont(doc, StrOr(el, "font", defaultFont),
                      NumOr(el, "fontSize", defaultFontSize),
                      StrOr(el, "color", "#1a0dab"))
        opts == ("underline" :> TRUE)
                @@ Opt("link", Has(el, "url"), Nullish(el, "url", ""))
                @@ [f \in DOMAIN TextOptions(el) \ {"link"} |-> TextOptions(el)[f]]
        d2 == DocText(d1, StrOr(el, "value", Nullish(el, "url", "")), opts,
                      [part |-> "link"])
        d3 == [d2 EXCEPT !.fillColor = "#000000"]
    IN IF NumOr(el, "moveDown", 0) # 0 THEN DocMoveDown(d3, el.moveDown) ELSE d3

\* A list item or a table cell is a plain string [str |-> s], an object
\* (the fields it carries, among text, link, color) or undefined.
IsString(v) == Has(v, "str")

Undefined == [undefined |-> TRUE]

\* The items of _renderList from position i on.
RECURSIVE ListItems(_, _, _, _)
ListItems(doc, el, items, i) ==
  IF i > Len(items) THEN doc
  ELSE
    LET item == items[i]
        bullet == IF Truthy(el, "ordered") THEN ToString(i) \o ". " ELSE "* "
        opts == ("indent" :> NumOr(el, "indent", Pt(15))) @@ TextOptions(el)
        tag == [part |-> "item", item |-> i]
        d1 == IF IsString(item)
              THEN DocText(doc, bullet \o item.str, opts, tag)
              ELSE DocText(doc, bullet \o StrOr(item, "text", ""),
                           ("underline" :> (StrOr(item, "link", "") # ""))
                           @@ Opt("link", Has(item, "link"), Nullish(item, "link", ""))
                           @@ [f \in DOMAIN opts \ {"link"} |-> opts[f]],
                           tag)
    IN ListItems(d1, el, items, i + 1)

\* Mutant: no trailing gap after the items.
RenderListNoGap(doc, el) ==
  ListItems(ApplyFont(doc, el), el, Nullish(el, "items", <<>>), 1)

\* _renderList
RenderList(doc, el) ==
  LET d1 == ApplyFont(doc, el)
      d2 == ListItems(d1, el, Nullish(el, "items", <<>>), 1)
  IN DocMoveDown(d2, Nullish(el, "moveDown", 500))

\* The cells of one body row of _renderTable from column ci on; x is the
\* left edge of the cell and y the top of the row.
RECURSIVE TableCells(_, _, _, _, _, _, _)
TableCells(doc, t, cells, ri, ci, x, y) ==
  IF ci > Len(cells) THEN doc
  ELSE
    LET cell == cells[ci]
        w == IF ci <= Len(t.colWidths) /\ t.colWidths[ci] # 0
             THEN t.colWidths[ci] ELSE Pt(100)
        tag == [part |-> "cell", row |-> ri, col |-> ci, top |-> y]
        d1 == DocFont(doc, t.bodyFont, t.fontSize, "#000000")
        d2 == IF ~IsString(cell) /\ cell # Undefined /\ StrOr(cell, "link", "") # ""
              THEN LET d21 == [d1 EXCEPT !.fillColor = StrOr(cell, "color", "#1a0dab")]
                       d22 == DocTextAt(d21, StrOr(cell, "text", ""),
                                        x + t.cellPadding, y + t.cellPadding,
                                        [width |-> w - t.cellPadding * 2,
                                         link |-> cell.link, underline |-> TRUE],
                                        tag)
                   IN [d22 EXCEPT !.fillColor = "#000000"]
              ELSE DocTextAt(d1, IF IsString(cell) THEN cell.str
                                 ELSE IF cell = Undefined THEN ""
                                 ELSE "[object Object]",
                             x + t.cellPadding, y + t.cellPadding,
                             [width |-> w - t.cellPadding * 2], tag)
    IN TableCells(d2, t, cells, ri, ci + 1, x + w, y)

\* Mutant: the parity test inverted.
AlternateRowEven(ri) == ri % 2 = 0

\* The body row with 0-based index ri gets the alternate background.
AlternateRow(ri) == ri % 2 = 1

\* The body rows of _renderTable from row ri (1-based here, ri - 1 in the
\* code) on; y is the top of the next row.  The result is the document and
\* the y the loop ends with.
RECURSIVE TableRows(_, _, _, _, _)
TableRows(doc, t, rows, ri, y) ==
  IF ri > Len(rows) THEN [doc |-> doc, y |-> y]
  ELSE
    LET newPage == y + t.rowHeight > PageHeight - MarginBottom
        d1 == IF newPage THEN DocAddPage(doc) ELSE doc
        y1 == IF newPage THEN MarginTop ELSE y
        d2 == IF AlternateRow(ri - 1)
              THEN DocFillRect(d1, t.startX, y1, SumSeq(t.colWidths),
                               t.rowHeight, t.rowAltBg,
                               [part |-> "rowbg", row |-> ri - 1, top |-> y1])
              ELSE d1
        d3 == TableCells(d2, t, rows[ri], ri - 1, 1, t.startX, y1)
    IN TableRows(d3, t, rows, ri + 1, y1 + t.rowHeight)

\* The header labels of _renderTable from column i on.
RECURSIVE TableHeaders(_, _, _, _, _, _)
TableHeaders(doc, t, headers, i, x, y) ==
  IF i > Len(headers) THEN doc
  ELSE
    LET d1 == DocFont(doc, t.headerFont, t.fontSize, t.headerColor)
        d2 == DocTextAt(d1, headers[i], x + t.cellPadding, y + t.cellPadding,
                        [width |-> t.colWidths[i] - t.cellPadding * 2,
                         align |-> "left"],
                        [part |-> "header", col |-> i, top |-> y])
    IN TableHeaders(d2, t, headers, i + 1, x + t.colWidths[i], y)

\* rowHeight of _renderTable
TableRowHeight(el) ==
  NumOr(el, "rowHeight",
        Pt(NumOr(el, "fontSize", 10)) + NumOr(el, "cellPadding", Pt(5)) * 2 + Pt(4))

\* _renderTable
RenderTable(doc, el) ==
  LET headers == Nullish(el, "headers", <<>>)
      rows == Nullish(el, "rows", <<>>)
      fontSize == NumOr(el, "fontSize", 10)
      cellPadding == NumOr(el, "cellPadding", Pt(5))
      t == [colWidths |-> Nullish(el, "columnWidths", AutoColumnWidths(Len(headers))),
            startX |-> NumOr(el, "x", doc.x),
            headerFont |-> StrOr(el, "headerFont", "Helvetica-Bold"),
            bodyFont |-> StrOr(el, "bodyFont", defaultFont),
            fontSize |-> fontSize,
            headerBg |-> StrOr(el, "headerBackground", "#4472C4"),
            headerColor |-> StrOr(el, "headerColor", "#FFFFFF"),
            rowAltBg |-> StrOr(el, "alternateRowBackground", "#F2F2F2"),
            cellPadding |-> cellPadding,
            rowHeight |-> TableRowHeight(el)]
      y0 == doc.y
      d1 == IF Len(headers) # 0
            THEN TableHeaders(
                   DocFillRect(doc, t.startX, y0, SumSeq(t.colWidths),
                               t.rowHeight, t.headerBg,
                               [part |-> "headerbg", top |-> y0]),
                   t, headers, 1, t.startX, y0)
            ELSE doc
      y1 == IF Len(headers) # 0 THEN y0 + t.rowHeight ELSE y0
      r == TableRows(d1, t, rows, 1, y1)
      d2 == IF Nullish(el, "gridLines", TRUE) # FALSE
            THEN DocStrokeLine(r.doc, t.startX, t.startX + SumSeq(t.colWidths),
                               r.y, [part |-> "grid"])
            ELSE r.doc
  IN [d2 EXCEPT !.x = t.startX, !.y = r.y + Pt(5)]

\* The assets an image element may name, with their natural size.
ImageSize(src) == [width |-> Pt(120), height |-> Pt(60)]

\* doc.image(src, x, y, opts): placed at (x, y); when that is the cursor's
\* line the cursor moves below the image.
DocImage(doc, src, x, y, opts) ==
  LET nat == ImageSize(src)
      w == IF Has(opts, "width") THEN opts.width
           ELSE IF Has(opts, "height")
                THEN (nat.width * opts.height) \div nat.height
           ELSE nat.width
      h == IF Has(opts, "height") THEN opts.height
           ELSE IF Has(opts, "width")
                THEN (nat.height * opts.width) \div nat.width
           ELSE nat.height
      d1 == Emit(doc, [op |-> "image", src |-> src, x |-> x, y |-> y,
                       w |-> w, h |-> h, tag |-> [part |-> "image"]])
  IN IF doc.y = y THEN [d1 EXCEPT !.y = @ + h] ELSE d1

\* _renderImage
RenderImage(doc, el) ==
  LET opts == Opt("width", NumOr(el, "width", 0) # 0, NumOr(el, "width", 0))
              @@ Opt("height", NumOr(el, "height", 0) # 0, NumOr(el, "height", 0))
      d1 == IF Has(el, "x") /\ Has(el, "y")
            THEN DocImage(doc, el.src, el.x, el.y, opts)
            ELSE DocImage(doc, el.src, doc.x, doc.y, opts)
      d2 == IF StrOr(el, "link", "") # ""
            THEN LET h == NumOr(el, "height", Pt(100))
                 IN DocLink(d1, NumOr(el, "x", d1.x),
                            NumOr(el, "y", d1.y) - h,
                            NumOr(el, "width", Pt(100)), h, el.link,
                            [part |-> "image"])
            ELSE d1
  IN IF NumOr(el, "moveDown", 0) # 0 THEN DocMoveDown(d2, el.moveDown) ELSE d2

\* _renderDivider
RenderDivider(doc, el) ==
  LET x == NumOr(el, "x", MarginLeft)
      w == NumOr(el, "width", PageWidth - MarginLeft - MarginRight)
      y == doc.y
      d1 == DocStrokeLine(doc, x, x + w, y, [part |-> "divider"])
  IN [d1 EXCEPT !.y = y + NumOr(el, "spacing", Pt(10))]

\* _renderSpacer
RenderSpacer(doc, el) == DocMoveDown(doc, NumOr(el, "lines", 1000))

\* _renderRect
RenderRect(doc, el) ==
  LET d1 == IF StrOr(el, "fill", "") # ""
            THEN DocFillRect(doc, el.x, el.y, el.width, el.height, el.fill,
                             [part |-> "rect"])
            ELSE doc
      d2 == IF StrOr(el, "stroke", "") # ""
            THEN Emit(d1, [op |-> "strokeRect", x |-> el.x, y |-> el.y,
                           w |-> el.width, h |-> el.height,
                           color |-> el.stroke, tag |-> [part |-> "rect"]])
            ELSE d1
  IN IF StrOr(el, "link", "") # ""
     THEN DocLink(d2, el.x, el.y, el.width, el.height, el.link, [part |-> "rect"])
     ELSE d2

\* The "redacted" bars of _renderOverlay from bar i on; rnd[i] is the value
\* Math.random() returns for bar i, in thousandths.
RECURSIVE OverlayBars(_, _, _, _, _, _, _)
OverlayBars(doc, i, lines, startY, lineGap, lineColor, rnd) ==
  IF i > lines THEN doc
  ELSE
    LET ly == startY + lineGap * i
        lw == (ContentWidth * (400 + (rnd[i] * 450) \div 1000)) \div 1000
    IN OverlayBars(DocFillRect(doc, MarginLeft, ly, lw, Pt(8), lineColor,
                               [part |-> "bar", bar |-> i]),
                   i + 1, lines, startY, lineGap, lineColor, rnd)

\* Mutant: the cursor resumes below the label.
RenderOverlayBelowLabel(doc, el, rnd) ==
  LET overlayHeight == NumOr(el, "height", Pt(200))
      startY == doc.y
      labelSize == NumOr(el, "labelSize", 18)
      d1 == DocFillRect(doc, MarginLeft, startY, ContentWidth, overlayHeight,
                        StrOr(el, "color", "#FFFFFF"), [part |-> "overlay"])
      d2 == DocFont(d1, "Helvetica-Bold", labelSize,
                    StrOr(el, "labelColor", "#1a0dab"))
      d3 == DocTextAt(d2, StrOr(el, "label", "Click to View"), MarginLeft,
                      startY + overlayHeight \div 2 - Pt(labelSize) \div 2,
                      [width |-> ContentWidth, align |-> "center"],
                      [part |-> "label"])
  IN [d3 EXCEPT !.fillColor = "#000000", !.x = MarginLeft,
                !.y = @ + overlayHeight \div 2 + Pt(10)]

\* _renderOverlay
RenderOverlay(doc, el, rnd) ==
  LET overlayHeight == NumOr(el, "height", Pt(200))
      startY == doc.y
      lines == Nullish(el, "lines", 6)
      lineGap == overlayHeight \div (lines + 2)
      d1 == OverlayBars(doc, 1, lines, startY, lineGap,
                        StrOr(el, "lineColor", "#E0E0E0"), rnd)
      d2 == DocFillRect(d1, MarginLeft, startY, ContentWidth, overlayHeight,
                        StrOr(el, "color", "#FFFFFF"), [part |-> "overlay"])
      labelSize == NumOr(el, "labelSize", 18)
      labelY == startY + overlayHeight \div 2 - Pt(labelSize) \div 2
      d3 == DocFont(d2, "Helvetica-Bold", labelSize,
                    StrOr(el, "labelColor", "#1a0dab"))
      textOpts == [width |-> ContentWidth, align |-> "center", underline |-> TRUE]
                  @@ Opt("link", StrOr(el, "url", "") # "", StrOr(el, "url", ""))
      d4 == DocTextAt(d3, StrOr(el, "label", "Click to View"), MarginLeft,
                      labelY, textOpts, [part |-> "label"])
      d5 == IF StrOr(el, "url", "") # ""
            THEN DocLink(d4, MarginLeft, startY, ContentWidth, overlayHeight,
                         el.url, [part |-> "overlay"])
            ELSE d4
  IN [d5 EXCEPT !.fillColor = "#000000", !.x = MarginLeft,
                !.y = startY + overlayHeight + Pt(10)]

\* Mutant: the cursor goes back to the top margin of the current page.
RenderPageBreakInPlace(doc, el) ==
  [doc EXCEPT !.x = MarginLeft, !.y = MarginTop]

\* case "pageBreak": return doc.addPage()
RenderPageBreak(doc, el) == DocAddPage(doc)

\* Mutant: an unknown type falls back to a line of text naming it.
UnknownKindAsText(doc, el) == DocText(doc, el.type, Empty, NoTag)

\* default: an unknown type is silently skipped.
UnknownKind(doc, el) == doc

\* The kinds _renderElement has a case for.
RegisteredKinds ==
  {"text", "heading", "link", "list", "table", "image", "divider", "spacer",
   "columns", "rect", "overlay", "stealthLink", "pageBreak"}

\* The width of one column of _renderColumns.
ColWidth(el) ==
  LET n == Len(Nullish(el, "columns", <<>>))
  IN IF n = 0 THEN 0
     ELSE (ContentWidth - NumOr(el, "gap", Pt(20)) * (n - 1)) \div n

RECURSIVE RenderElement(_, _, _)
RECURSIVE ColumnChildren(_, _, _, _, _)
RECURSIVE ColumnsFrom(_, _, _, _, _, _)

\* The children of one column from child k on, each patched with the
\* column width.
ColumnChildren(doc, children, k, colWidth, rnd) ==
  IF k > Len(children) THEN doc
  ELSE ColumnChildren(
         RenderElement(doc, ("width" :> colWidth) @@ children[k], rnd),
         children, k + 1, colWidth, rnd)

\* The columns of _renderColumns from column i (1-based here) on: the
\* document and the maxY the loop ends with, and (for the record) the
\* doc.y each column ended at.
ColumnsFrom(doc, el, i, startY, maxY, rnd) ==
  LET columns == Nullish(el, "columns", <<>>)
  IN IF i > Len(columns) THEN [doc |-> doc, maxY |-> maxY, ends |-> <<>>]
     ELSE
       LET colWidth == ColWidth(el)
           x == MarginLeft + (i - 1) * (colWidth + NumOr(el, "gap", Pt(20)))
           d1 == [doc EXCEPT !.x = x, !.y = startY]
           d2 == ColumnChildren(d1, Nullish(columns[i], "elements", <<>>), 1,
                                colWidth, rnd)
           r == ColumnsFrom(d2, el, i + 1, startY,
                            IF d2.y > maxY THEN d2.y ELSE maxY, rnd)
       IN [r EXCEPT !.ends = <<d2.y>> \o @]

\* Mutant: the cursor resumes a random distance below the columns.
RenderColumnsJitter(doc, el, rnd) ==
  LET r == ColumnsFrom(doc, el, 1, doc.y, doc.y, rnd)
  IN [r.doc EXCEPT !.x = MarginLeft, !.y = r.maxY + rnd[1]]

\* Mutant: the cursor resumes where the last column ended.
RenderColumnsLast(doc, el, rnd) ==
  LET r == ColumnsFrom(doc, el, 1, doc.y, doc.y, rnd)
  IN [r.doc EXCEPT !.x = MarginLeft]

\* _renderColumns
RenderColumns(doc, el, rnd) ==
  LET r == ColumnsFrom(doc, el, 1, doc.y, doc.y, rnd)
  IN [r.doc EXCEPT !.x = MarginLeft, !.y = r.maxY]

\* _renderElement: the dispatcher.
RenderElement(doc, el, rnd) ==
  CASE el.type = "text" -> RenderText(doc, el)
    [] el.type = "heading" -> RenderHeading(doc, el)
    [] el.type = "link" -> RenderLink(doc, el)
    [] el.type = "list" -> RenderList(doc, el)
    [] el.type = "table" -> RenderTable(doc, el)
    [] el.type = "image" -> RenderImage(doc, el)
    [] el.type = "divider" -> RenderDivider(doc, el)
    [] el.type = "spacer" -> RenderSpacer(doc, el)
    [] el.type = "columns" -> RenderColumns(doc, el, rnd)
    [] el.type = "rect" -> RenderRect(doc, el)
    [] el.type = "overlay" -> RenderOverlay(doc, el, rnd)
    [] el.type = "stealthLink" -> RenderStealthLink(doc, el)
    [] el.type = "pageBreak" -> RenderPageBreak(doc, el)
    [] OTHER -> UnknownKind(doc, el)

\* The footers of _addPageNumbers from page i (0-based) on; count is the
\* page count read before the loop.
RECURSIVE PageNumbersFrom(_, _, _, _)
PageNumbersFrom(doc, opts, i, count) ==
  IF i >= count THEN doc
  ELSE
    LET d1 == DocSwitchToPage(doc, i)
        d2 == DocFont(d1, defaultFont, NumOr(opts, "fontSize", 10),
                      StrOr(opts, "color", "#888888"))
        d3 == DocTextAt(d2,
                        StrOr(opts, "prefix", "Page ") \o ToString(i + 1)
                          \o " of " \o ToString(count),
                        MarginLeft, PageHeight - MarginBottom + Pt(15),
                        [align |-> StrOr(opts, "align", "center"),
                         width |-> PageWidth - MarginLeft - MarginRight],
                        [part |-> "footer", page |-> i + 1])
    IN PageNumbersFrom(d3, opts, i + 1, count)

\* _addPageNumbers
AddPageNumbers(doc, opts) == PageNumbersFrom(doc, opts, 0, Len(doc.pages))

(* ---------------------------------------------------------------------- *)
(*  The inputs: elements, page-number options, random streams             *)
(* ---------------------------------------------------------------------- *)

Url == "https://example.com/secret"

Short == "View Document"

\* 110 characters: two lines of body text, three lines in a table cell.
Long ==
  "Lorem ipsum dolor sit amet, consectetur adipiscing elit, sed do eiusmod tempor incididunt ut labore et dolore."

TextElements ==
  { [type |-> "text", value |-> Short],
    [type |-> "text", value |-> Long, link |-> Url, underline |-> TRUE,
     moveDown |-> 1000],
    [type |-> "text"],
    [type |-> "heading", level |-> 1, value |-> Short],
    [type |-> "heading", value |-> Short, level |-> 7, moveDown |-> 0] }

LinkElements ==
  { [type |-> "link", value |-> Short, url |-> Url],
    [type |-> "link", url |-> Url],
    [type |-> "link", value |-> Short, url |-> Url, stealth |-> TRUE],
    [type |-> "link", value |-> Long, url |-> Url, stealth |-> TRUE,
     color |-> "#333333", underline |-> TRUE, moveDown |-> 1000],
    [type |-> "stealthLink", value |-> Short, url |-> Url],
    [type |-> "stealthLink", value |-> Short],
    [type |-> "stealthLink", value |-> Long, url |-> Url,
     color |-> "#333333", underline |-> TRUE, moveDown |-> 1000] }

ListItemsInput ==
  << [str |-> "Plain item"], [text |-> "Linked item", link |-> Url] >>

ListElements ==
  { [type |-> "list", items |-> ListItemsInput, ordered |-> TRUE],
    [type |-> "list", items |-> ListItemsInput],
    [type |-> "list", ordered |-> TRUE, moveDown |-> 1000,
     items |-> << [text |-> "Linked item", link |-> Url],
                  [text |-> "Object item"], [str |-> Long] >>],
    [type |-> "list", link |-> Url,
     items |-> << [str |-> "Plain item"], [text |-> "Object item"] >>] }

TableElements ==
  { [type |-> "table", headers |-> <<"Name", "Link">>,
     rows |-> << << [str |-> "Google"], [text |-> "Visit", link |-> Url] >>,
                 << [str |-> "One"], [text |-> "Two"] >>,
                 << Undefined, [str |-> "Three"] >> >>],
    [type |-> "table",
     rows |-> << << [str |-> Long], [str |-> "x"] >>, << [str |-> "r1"] >>,
                 << [str |-> "r2"] >> >>],
    [type |-> "table", headers |-> <<"Row">>,
     rows |-> << << [str |-> "r0"] >>, << [str |-> "r1"] >>,
                 << [str |-> "r2"] >>, << [str |-> "r3"] >> >>,
     rowHeight |-> Pt(300)],
    [type |-> "table", x |-> Pt(100), columnWidths |-> <<Pt(120), Pt(80)>>,
     headers |-> <<"Item", "Price">>,
     rows |-> << << [str |-> "Widget"], [str |-> "9.99"] >> >>] }

BlockElements ==
  { [type |-> "image", src |-> "logo.png", width |-> Pt(120),
     height |-> Pt(60), link |-> Url],
    [type |-> "image", src |-> "logo.png", x |-> Pt(300), y |-> Pt(400),
     link |-> Url],
    [type |-> "divider"],
    [type |-> "spacer"],
    [type |-> "spacer", lines |-> 51500],
    [type |-> "rect", x |-> Pt(60), y |-> Pt(60), width |-> Pt(100),
     height |-> Pt(40), fill |-> "#EEEEEE", link |-> Url],
    [type |-> "overlay", url |-> Url],
    [type |-> "overlay", label |-> "Content Hidden", lines |-> 2,
     height |-> Pt(700)],
    [type |-> "pageBreak"],
    [type |-> "unknownWidget", foo |-> "bar"] }

ColumnsElements ==
  { [type |-> "columns",
     columns |-> << [elements |-> << [type |-> "text", value |-> Long] >>],
                    [elements |-> << [type |-> "text", value |-> Short] >>] >>],
    [type |-> "columns",
     columns |-> << [elements |-> << [type |-> "pageBreak"],
                                     [type |-> "text", value |-> Short] >>],
                    [elements |-> << [type |-> "overlay", lines |-> 1,
                                      height |-> Pt(40)] >>] >>],
    [type |-> "columns",
     columns |-> << [elements |-> << [type |-> "pageBreak"],
                                     [type |-> "divider"] >>] >>],
    [type |-> "columns",
     columns |-> << [elements |-> << [type |-> "link", value |-> Short,
                                      url |-> Url],
                                     [type |-> "divider"] >>],
                    [elements |-> << [type |-> "table", headers |-> <<"Item">>,
                                      rows |-> << << [str |-> "Widget"] >> >>],
                                     [type |-> "text", value |-> "After"] >>] >>],
    [type |-> "columns",
     columns |-> << [elements |-> << [type |-> "text", value |-> Short] >>],
                    [elements |-> << [type |-> "rect", x |-> Pt(330),
                                      y |-> Pt(60), height |-> Pt(40),
                                      fill |-> "#EEEEEE"],
                                     [type |-> "columns",
                                      columns |-> << [elements |-> <<
                                                        [type |-> "text",
                                                         value |-> "In"] >>],
                                                     [elements |-> <<
                                                        [type |-> "text",
                                                         value |-> "Out"] >>]
                                                  >>] >>] >>],
    [type |-> "columns"] }

Elements ==
  TextElements \cup LinkElements \cup ListElements \cup TableElements
  \cup BlockElements \cup ColumnsElements

\* spec.pageNumbers: absent, or an options object.
NoPageNumbers == [requested |-> FALSE]

PageNumberOptions ==
  { NoPageNumbers, [align |-> "center"], [prefix |-> "P", fontSize |-> 9] }

\* The values Math.random() returns for the bars of one overlay, in
\* thousandths: all at the low end, all at the high end, mixed.
MaxBars == 6

RandomStreams ==
  { [i \in 1..MaxBars |-> 0], [i \in 1..MaxBars |-> 999],
    [i \in 1..MaxBars |-> (i * 167) % 1000] }

RECURSIVE UsesRandom(_)
UsesRandom(el) ==
  \/ el.type = "overlay"
  \/ /\ el.type = "columns"
     /\ \E i \in 1..Len(Nullish(el, "columns", <<>>)) :
          \E k \in 1..Len(Nullish(el.columns[i], "elements", <<>>)) :
            UsesRandom(el.columns[i].elements[k])

(* ---------------------------------------------------------------------- *)
(*  The render session: _render                                           *)
(* ---------------------------------------------------------------------- *)

VARIABLES
  doc,      \* the document of the session
  pc,       \* "walk": in the loop over spec.elements; "done": _render returned
  n,        \* the number of elements dispatched
  last,     \* the element dispatched last
  lastRnd,  \* the random values its overlays drew
  prev,     \* the document before the last step
  numbering \* spec.pageNumbers, as read after the loop

VARIABLES
  call,     \* one call of generateToBuffer / generateToFile / generateToStream
  server,   \* one request to the HTTP server and what its handler did
  engine,   \* the fields of the PDFEngine instance the server shares
  heap,     \* the objects created so far, by identity: the PDFDocuments of
            \* the sessions, or the browsers the converter launched
  sess      \* the render sessions started on the shared engine, or the
            \* calls of HtmlToPdfConverter._convert

vars == <<doc, pc, n, last, lastRnd, prev, numbering,
          call, server, engine, heap, sess>>

\* What a render session of its own does not touch.
NoCall == [api |-> "(none)"]

NoRequest == [route |-> "(none)"]

\* new PDFEngine(options.engineOptions), options.engineOptions undefined.
NewEngine ==
  [defaultFontSize |-> defaultFontSize, defaultFont |-> defaultFont,
   margins |-> [top |-> 50, bottom |-> 50, left |-> 50, right |-> 50],
   size |-> "A4"]

outside == <<call, server, engine, heap, sess>>

OutsideInit ==
  /\ call = NoCall
  /\ server = NoRequest
  /\ engine = NewEngine
  /\ heap = <<>>
  /\ sess = <<>>

NoElement == [type |-> "(none)"]

Init ==
  /\ doc = NewDocument
  /\ pc = "walk"
  /\ n = 0
  /\ last = NoElement
  /\ lastRnd = [i \in 1..MaxBars |-> 0]
  /\ prev = NewDocument
  /\ numbering = NoPageNumbers
  /\ OutsideInit

\* One iteration of the loop of _render: this._renderElement(doc, el).
Dispatch ==
  /\ pc = "walk"
  /\ n < MaxElems
  /\ \E el \in Elements :
       \E rnd \in IF UsesRandom(el) THEN RandomStreams
                  ELSE {[i \in 1..MaxBars |-> 0]} :
         /\ doc' = RenderElement(doc, el, rnd)
         /\ last' = el
         /\ lastRnd' = rnd
  /\ prev' = doc
  /\ n' = n + 1
  /\ UNCHANGED <<pc, numbering>>
  /\ UNCHANGED outside

\* The end of _render: the page-numbering pass when spec.pageNumbers is set.
Finish ==
  /\ pc = "walk"
  /\ \E opts \in PageNumberOptions :
       /\ numbering' = opts
       /\ doc' = IF opts # NoPageNumbers THEN AddPageNumbers(doc, opts) ELSE doc
  /\ pc' = "done"
  /\ prev' = doc
  /\ UNCHANGED <<n, last, lastRnd>>
  /\ UNCHANGED outside

Next == Dispatch \/ Finish

Spec == Init /\ [][Next]_vars

(* ---------------------------------------------------------------------- *)
(*  What the last step put on the pages                                   *)
(* ---------------------------------------------------------------------- *)

\* The primitives and annotations the last step added to page p.
NewOps(p) ==
  IF p <= Len(prev.pages)
  THEN SubSeq(doc.pages[p], Len(prev.pages[p]) + 1, Len(doc.pages[p]))
  ELSE doc.pages[p]

\* The same, each with the page it is on.
NewPlaced ==
  UNION { { [page |-> p, op |-> NewOps(p)[k]] : k \in 1..Len(NewOps(p)) } :
          p \in 1..Len(doc.pages) }

Dispatched(kind) == pc = "walk" /\ last.type = kind

InContentArea(y) == MarginTop <= y /\ y <= PageHeight - MarginBottom

\* What the last step painted for the body row with 0-based index ri.
RowPlaced(ri) ==
  { q \in NewPlaced : q.op.tag.part \in {"cell", "rowbg"} /\ q.op.tag.row = ri }

LastRows == Nullish(last, "rows", <<>>)

(* ---------------------------------------------------------------------- *)
(*  Claims                                                                *)
(* ---------------------------------------------------------------------- *)

\* C1: after any element renderer returns to the dispatcher, from a cursor
\* inside the content area, the cursor's vertical position lies within
\* [marginTop, pageHeight - marginBottom].
C1_CursorInContentArea ==
  (pc = "walk" /\ last # NoElement /\ InContentArea(prev.y))
    => InContentArea(doc.y)

\* C2: every body row of a table is painted entirely on one page, with its
\* bottom edge (row top + rowHeight) not below pageHeight - marginBottom.
C2_RowOnOnePage ==
  Dispatched("table") =>
    \A ri \in 0..(Len(LastRows) - 1) :
      \A a, b \in RowPlaced(ri) :
        /\ a.page = b.page
        /\ a.op.tag.top + TableRowHeight(last) <= PageHeight - MarginBottom

\* C3: the body row with 0-based index ri gets the alternating background
\* (the fill over the table's column widths) if and only if ri is odd,
\* whatever page the row lands on.
C3_AlternateParity ==
  Dispatched("table") =>
    \A ri \in 0..(Len(LastRows) - 1) :
      (\E q \in RowPlaced(ri) : q.op.tag.part = "rowbg") <=> (ri % 2 = 1)

\* C3 witness: a table that broke onto a new page, with the background of
\* an odd row the first thing painted on the new page and an even row
\* after it.
C3_Witness ==
  /\ Dispatched("table")
  /\ Len(doc.pages) > Len(prev.pages)
  /\ \E q \in NewPlaced :
       /\ q.page > Len(prev.pages)
       /\ q.op.tag.part = "rowbg"
       /\ q.op.w > 0
       /\ doc.pages[q.page][1] = q.op
  /\ \E q \in NewPlaced :
       /\ q.page > Len(prev.pages)
       /\ q.op.tag.part = "cell"
       /\ q.op.tag.row = 2

\* The vertical position each column of the columns element dispatched
\* last ended at, and the largest of them.
LastColumnEnds == ColumnsFrom(prev, last, 1, prev.y, prev.y, lastRnd).ends

RECURSIVE MaxOf(_)
MaxOf(ys) == IF Len(ys) = 1 THEN ys[1] ELSE Max(ys[1], MaxOf(Tail(ys)))

\* C4 as stated: after the columns renderer the cursor is at the left margin
\* and at the maximum of the vertical positions the columns ended at.
C4_MaxOfColumnEnds ==
  (Dispatched("columns") /\ LastColumnEnds # <<>>) =>
    /\ doc.x = MarginLeft
    /\ doc.y = MaxOf(LastColumnEnds)

\* C4 amended: after the columns renderer the cursor is at the left margin
\* and at the maximum of the shared start position and the vertical
\* positions the columns ended at (a column that moved on to a new page may
\* end above the start position).
C4_MaxOfStartAndColumnEnds ==
  Dispatched("columns") =>
    /\ doc.x = MarginLeft
    /\ doc.y = MaxOf(<<prev.y>> \o LastColumnEnds)

\* C4 witness: two columns ending at different heights below the start,
\* the first one the taller, so that the maximum is neither the last
\* column's value nor the sum of the advances.
C4_Witness ==
  /\ Dispatched("columns")
  /\ Len(LastColumnEnds) = 2
  /\ LastColumnEnds[1] > LastColumnEnds[2]
  /\ LastColumnEnds[2] > prev.y
  /\ doc.y = LastColumnEnds[1]

\* The page-number footers on page p of the document.
FootersOn(p) ==
  { k \in 1..Len(doc.pages[p]) : doc.pages[p][k].tag.part = "footer" }

Numbered == pc = "done" /\ numbering # NoPageNumbers

C6_NumberingKeepsLayout ==
  Numbered =>
    /\ Len(doc.pages) = Len(prev.pages)
    /\ \A p \in 1..Len(prev.pages) : IsPrefix(prev.pages[p], doc.pages[p])
    /\ \A q \in NewPlaced :
         /\ q.op.tag.part = "footer"
         /\ q.page = q.op.tag.page
         /\ q.op.y >= PageHeight - MarginBottom

\* C7: dispatching an element of an unregistered kind changes nothing: no
\* primitive, no clickable region, no page, the same cursor.
C7_UnknownKindIsNoOp ==
  (pc = "walk" /\ last # NoElement /\ last.type \notin RegisteredKinds)
    => doc = prev

\* C7 witness: an unknown element dispatched after something was rendered.
C7_Witness ==
  /\ Dispatched("unknownWidget")
  /\ n >= 2
  /\ prev.pages[1] # <<>>

\* The clickable regions the last step registered.
NewRegions == { q \in NewPlaced : q.op.op = "annot" }

NewTexts == { q \in NewPlaced : q.op.op = "text" }

\* C8: a stealthLink never passes its URL to the text write; with a URL it
\* registers exactly one region bound to it, after the text; without a URL
\* it registers none.
C8_StealthDecoupled ==
  Dispatched("stealthLink") =>
    /\ \A q \in NewTexts : q.op.link = "" /\ q.op.str # StrOr(last, "url", "")
    /\ IF StrOr(last, "url", "") # ""
       THEN /\ Cardinality(NewRegions) = 1
            /\ \A q \in NewRegions :
                 /\ q.op.url = last.url
                 /\ q.op.tag.part = "stealth"
                 /\ q.page = doc.cur
                 /\ doc.pages[doc.cur][Len(doc.pages[doc.cur])] = q.op
       ELSE NewRegions = {}

\* C8 witness: a stealthLink with a URL whose text ran over two lines.
C8_Witness ==
  /\ Dispatched("stealthLink")
  /\ StrOr(last, "url", "") # ""
  /\ \E q \in NewTexts : q.op.line = 2

\* The stealthLink element with the attributes of a link element.
AsStealthLink(el) ==
  [f \in DOMAIN el \ {"stealth"} |->
     IF f = "type" THEN "stealthLink" ELSE el[f]]

\* C9: a link with stealth: true leaves the document as the stealthLink
\* with the same attributes does; a link without stealth passes its URL in
\* the text write.
C9_StealthLinkEquivalence ==
  Dispatched("link") =>
    IF Truthy(last, "stealth")
    THEN doc = RenderElement(prev, AsStealthLink(last), lastRnd)
    ELSE /\ NewTexts # {}
         /\ \A q \in NewTexts : q.op.link = last.url

\* C9 witness: a stealth link without colour or underline of its own, with
\* its region registered.
C9_Witness ==
  /\ Dispatched("link")
  /\ Truthy(last, "stealth")
  /\ ~Has(last, "color")
  /\ NewRegions # {}
  /\ NewTexts # {}

\* C10: pages are only appended (none removed, none changed but by
\* appending), and a pageBreak appends exactly one page and leaves the
\* cursor at its top margin.
C10_PagesAppendOnly ==
  /\ Len(doc.pages) >= Len(prev.pages)
  /\ \A p \in 1..Len(prev.pages) : IsPrefix(prev.pages[p], doc.pages[p])
  /\ Dispatched("pageBreak") =>
       /\ Len(doc.pages) = Len(prev.pages) + 1
       /\ doc.cur = Len(doc.pages)
       /\ doc.pages[doc.cur] = <<>>
       /\ doc.x = MarginLeft
       /\ doc.y = MarginTop

\* C10 witness: a pageBreak taken with the cursor in the middle of a page
\* that has content.
C10_Witness ==
  /\ Dispatched("pageBreak")
  /\ prev.y > MarginTop
  /\ prev.pages[prev.cur] # <<>>

(* ---------------------------------------------------------------------- *)
(*  The public API: generateToBuffer, generateToFile, generateToStream    *)
(* ---------------------------------------------------------------------- *)

\* The image files that can be read.
ReadableAssets == {"logo.png"}

\* _renderRect paints, strokes or links: the calls that take its geometry.
RectPaints(el) ==
  StrOr(el, "fill", "") # "" \/ StrOr(el, "stroke", "") # ""
    \/ StrOr(el, "link", "") # ""

RectGeometry(el) ==
  Has(el, "x") /\ Has(el, "y") /\ Has(el, "width") /\ Has(el, "height")

\* Mutant: the table renderer reads cell.link of a cell that is undefined.
RECURSIVE ThrowsOnUndefinedCell(_)
ThrowsOnUndefinedCell(el) ==
  CASE el.type = "image" ->
         IF Has(el, "src") THEN el.src \notin ReadableAssets ELSE TRUE
    [] el.type = "rect" -> RectPaints(el) /\ ~RectGeometry(el)
    [] el.type = "table" ->
         \E i \in 1..Len(Nullish(el, "rows", <<>>)) :
           \E j \in 1..Len(el.rows[i]) : el.rows[i][j] = Undefined
    [] el.type = "list" ->
         \E i \in 1..Len(Nullish(el, "items", <<>>)) : el.items[i] = Undefined
    [] el.type = "columns" ->
         \E i \in 1..Len(Nullish(el, "columns", <<>>)) :
           \E k \in 1..Len(Nullish(el.columns[i], "elements", <<>>)) :
             ThrowsOnUndefinedCell(el.columns[i].elements[k])
    [] OTHER -> FALSE

\* The element makes its renderer throw: doc.image of a source that cannot
\* be read (or of none), doc.rect / doc.link of a coordinate that is not a
\* number, item.text of an item that is undefined, and the same in a
\* child of a column.
RECURSIVE Throws(_)
Throws(el) ==
  CASE el.type = "image" ->
         IF Has(el, "src") THEN el.src \notin ReadableAssets ELSE TRUE
    [] el.type = "rect" -> RectPaints(el) /\ ~RectGeometry(el)
    [] el.type = "list" ->
         \E i \in 1..Len(Nullish(el, "items", <<>>)) : el.items[i] = Undefined
    [] el.type = "columns" ->
         \E i \in 1..Len(Nullish(el, "columns", <<>>)) :
           \E k \in 1..Len(Nullish(el.columns[i], "elements", <<>>)) :
             Throws(el.columns[i].elements[k])
    [] OTHER -> FALSE

\* The bytes of a document, by the parts they are written in: the header
\* the constructor writes, the pages doc.end() flushes, the trailer.
Magic == "%PDF-"

PdfVersions == {"1.3", "1.4", "1.7"}

Header == [part |-> "header", bytes |-> Magic \o "1.3"]

Body(d) == [part |-> "body", pages |-> d.pages]

Trailer == [part |-> "trailer", bytes |-> "%%EOF"]

\* Mutant: nothing is pushed before the pages are flushed.
NewStreamEmpty == <<>>

\* new PDFDocument(docOpts): what the document has pushed to its readable
\* side when the constructor returns.
NewStream == <<Header>>

\* Elements from which optional attributes are absent: every kind with no
\* attribute at all (an image with its source only), an item without text,
\* an undefined and a missing cell, headers without rows, a column without
\* elements, a rectangle that paints nothing.
AbsentElements ==
  { [type |-> k] : k \in RegisteredKinds \ {"image"} }
  \cup
  { [type |-> "image", src |-> "logo.png"],
    [type |-> "list", items |-> << [link |-> Url], [color |-> "#333333"],
                                   [str |-> ""] >>],
    [type |-> "table", rows |-> << << Undefined, [str |-> "x"] >>, <<>> >>],
    [type |-> "table", headers |-> <<"A", "B">>,
     rows |-> << << [str |-> "only"] >> >>],
    [type |-> "table", headers |-> <<"A", "B">>],
    [type |-> "columns",
     columns |-> << [gap |-> 0],
                    [elements |-> << [type |-> "text"] >>] >>],
    [type |-> "rect", x |-> Pt(60), y |-> Pt(60), width |-> Pt(100),
     height |-> Pt(40)] }

\* Elements whose renderer throws.
ThrowingElements ==
  { [type |-> "image", src |-> "missing.png"],
    [type |-> "image"],
    [type |-> "rect", fill |-> "#EEEEEE"],
    [type |-> "list", items |-> << [str |-> "a"], Undefined >>],
    [type |-> "columns",
     columns |-> << [elements |-> << [type |-> "text", value |-> Short],
                                     [type |-> "image",
                                      src |-> "missing.png"] >>] >>] }

GenElements ==
  AbsentElements \cup ThrowingElements
  \cup { [type |-> "text", value |-> Long],
         [type |-> "overlay", url |-> Url],
         [type |-> "spacer", lines |-> 51500] }

Apis == {"buffer", "file", "stream"}

InitGen ==
  /\ doc = NewDocument
  /\ pc = "idle"
  /\ n = 0
  /\ last = NoElement
  /\ lastRnd = [i \in 1..MaxBars |-> 0]
  /\ prev = NewDocument
  /\ numbering = NoPageNumbers
  /\ OutsideInit

\* The executor of the promise up to the loop of _render: _createDocument,
\* the listeners (generateToBuffer) or the destination stream and the pipe
\* (generateToFile opens the file first), and the call of _render.
GenCall ==
  /\ pc = "idle"
  /\ \E api \in Apis :
       call' = [api |-> api, promise |-> "pending", settles |-> 0,
                renders |-> 1, stream |-> NewStream, dest |-> <<>>,
                opened |-> (api = "file"), ended |-> FALSE, value |-> <<>>]
  /\ doc' = NewDocument
  /\ prev' = doc
  /\ pc' = "walk"
  /\ UNCHANGED <<n, last, lastRnd, numbering, server, engine, heap, sess>>

\* One iteration of the loop of _render whose renderer returns.
GenDispatch ==
  /\ pc = "walk"
  /\ n < MaxElems
  /\ \E el \in GenElements :
       /\ ~Throws(el)
       /\ \E rnd \in IF UsesRandom(el) THEN RandomStreams
                     ELSE {[i \in 1..MaxBars |-> 0]} :
            /\ doc' = RenderElement(doc, el, rnd)
            /\ lastRnd' = rnd
       /\ last' = el
  /\ prev' = doc
  /\ n' = n + 1
  /\ UNCHANGED <<pc, numbering>>
  /\ UNCHANGED outside

\* One iteration whose renderer throws: the exception leaves _render and
\* the executor, and the promise is rejected with it; doc.end() is not
\* reached.
GenThrow ==
  /\ pc = "walk"
  /\ n < MaxElems
  /\ \E el \in GenElements :
       /\ Throws(el)
       /\ last' = el
  /\ call' = [call EXCEPT !.promise = "rejected", !.settles = @ + 1]
  /\ prev' = doc
  /\ n' = n + 1
  /\ pc' = "thrown"
  /\ UNCHANGED <<doc, lastRnd, numbering, server, engine, heap, sess>>

\* The end of _render (the page-numbering pass) and doc.end(): the pages
\* and the trailer are pushed.
GenEnd ==
  /\ pc = "walk"
  /\ \E opts \in PageNumberOptions :
       /\ numbering' = opts
       /\ doc' = IF opts # NoPageNumbers THEN AddPageNumbers(doc, opts) ELSE doc
  /\ call' = [call EXCEPT !.stream = @ \o <<Body(doc'), Trailer>>]
  /\ prev' = doc
  /\ pc' = "ended"
  /\ UNCHANGED <<n, last, lastRnd, server, engine, heap, sess>>

\* The value the promise of each entry point is resolved with.
Resolution(c, bytes) ==
  CASE c.api = "buffer" -> bytes
    [] c.api = "file" -> <<[part |-> "path"]>>
    [] OTHER -> <<>>

\* After the executor: what was pushed flows to the data listener or
\* through the pipe, then "end" (generateToBuffer) or the destination's
\* "finish" resolves the promise.
GenDeliver ==
  /\ pc = "ended"
  /\ call' = [call EXCEPT
                !.dest = @ \o call.stream,
                !.stream = <<>>,
                !.ended = TRUE,
                !.promise = IF @ = "pending" THEN "resolved" ELSE @,
                !.settles = @ + 1,
                !.value = Resolution(call, call.dest \o call.stream)]
  /\ pc' = "settled"
  /\ UNCHANGED <<doc, n, last, lastRnd, prev, numbering,
                 server, engine, heap, sess>>

\* After an executor that threw: the listeners and the pipe stay in place,
\* so what the constructor pushed still flows; nothing ends the
\* destination.
GenAbandon ==
  /\ pc = "thrown"
  /\ call' = [call EXCEPT !.dest = @ \o call.stream, !.stream = <<>>]
  /\ pc' = "aborted"
  /\ UNCHANGED <<doc, n, last, lastRnd, prev, numbering,
                 server, engine, heap, sess>>

NextGen == GenCall \/ GenDispatch \/ GenThrow \/ GenEnd \/ GenDeliver \/ GenAbandon

SpecGen == InitGen /\ [][NextGen]_vars

\* C11: a render call either completes with a full document, or its
\* promise is rejected with the renderer's exception, after a single pass,
\* with nothing written to the destination file or stream.
C11_CompleteOrNothing ==
  /\ pc = "settled" =>
       /\ call.promise = "resolved"
       /\ call.dest = <<Header, Body(doc), Trailer>>
       /\ call.ended
  /\ pc = "aborted" =>
       /\ call.promise = "rejected"
       /\ call.settles = 1
       /\ call.renders = 1
       /\ call.api \in {"file", "stream"} => call.dest = <<>>

\* The attributes a kind has no default for.
RequiredAttributes(kind) ==
  CASE kind = "image" -> {"src"}
    [] kind = "rect" -> {"x", "y", "width", "height"}
    [] OTHER -> {}

\* The element carries what its kind requires: the attributes without a
\* default, an image source that can be read, items that are strings or
\* objects, and children that carry what their kinds require.
RECURSIVE ValidElement(_)
ValidElement(el) ==
  IF ~(RequiredAttributes(el.type) \subseteq DOMAIN el) THEN FALSE
  ELSE CASE el.type = "image" -> el.src \in ReadableAssets
         [] el.type = "list" ->
              \A i \in 1..Len(Nullish(el, "items", <<>>)) :
                el.items[i] # Undefined
         [] el.type = "columns" ->
              \A i \in 1..Len(Nullish(el, "columns", <<>>)) :
                \A k \in 1..Len(Nullish(el.columns[i], "elements", <<>>)) :
                  ValidElement(el.columns[i].elements[k])
         [] OTHER -> TRUE

\* The documented defaults of the optional attributes of a kind (those
\* that do not depend on the cursor).
Defaults(kind) ==
  CASE kind = "text" ->
         [value |-> "", font |-> "Helvetica", fontSize |-> 12,
          color |-> "#000000", underline |-> FALSE, moveDown |-> 0]
    [] kind = "heading" ->
         [value |-> "", level |-> 1, font |-> "Helvetica-Bold",
          color |-> "#000000", moveDown |-> 500]
    [] kind = "link" ->
         [font |-> "Helvetica", fontSize |-> 12, color |-> "#1a0dab",
          stealth |-> FALSE, moveDown |-> 0]
    [] kind = "stealthLink" ->
         [value |-> "", font |-> "Helvetica", fontSize |-> 12,
          color |-> "#000000", underline |-> FALSE, moveDown |-> 0]
    [] kind = "list" ->
         [items |-> <<>>, ordered |-> FALSE, indent |-> Pt(15),
          moveDown |-> 500, font |-> "Helvetica", fontSize |-> 12,
          color |-> "#000000"]
    [] kind = "table" ->
         [headers |-> <<>>, rows |-> <<>>, headerFont |-> "Helvetica-Bold",
          bodyFont |-> "Helvetica", fontSize |-> 10,
          headerBackground |-> "#4472C4", headerColor |-> "#FFFFFF",
          alternateRowBackground |-> "#F2F2F2", cellPadding |-> Pt(5),
          gridLines |-> TRUE]
    [] kind = "image" -> [moveDown |-> 0]
    [] kind = "divider" ->
         [x |-> Pt(50), width |-> PageWidth - Pt(100), spacing |-> Pt(10)]
    [] kind = "spacer" -> [lines |-> 1000]
    [] kind = "columns" -> [columns |-> <<>>, gap |-> Pt(20)]
    [] kind = "overlay" ->
         [height |-> Pt(200), lines |-> 6, lineColor |-> "#E0E0E0",
          color |-> "#FFFFFF", label |-> "Click to View", labelSize |-> 18,
          labelColor |-> "#1a0dab"]
    [] OTHER -> Empty

C19_BufferStartsWithMagic ==
  (pc = "settled" /\ call.api = "buffer") =>
    /\ call.promise = "resolved"
    /\ call.settles = 1
    /\ call.value # <<>>
    /\ call.value[1].part = "header"
    /\ \E v \in PdfVersions : call.value[1].bytes = Magic \o v
    /\ call.value[Len(call.value)] = Trailer

\* C19 witness: generateToBuffer resolved for a specification with zero
\* elements.
C19_Witness ==
  /\ pc = "settled"
  /\ call.api = "buffer"
  /\ n = 0
  /\ call.promise = "resolved"
  /\ Len(call.value) = 3

(* ---------------------------------------------------------------------- *)
(*  The HTTP server: createServer (src/src/cli.js, lines 128-291)         *)
(* ---------------------------------------------------------------------- *)

\* The number of requests served one after the other.
MaxRequests == 2

\* The elements of a specification from position i on, rendered in order
\* (the loop of _render); overlays draw the values rnd.
RECURSIVE RenderAll(_, _, _, _)
RenderAll(d, elements, i, rnd) ==
  IF i > Len(elements) THEN d
  ELSE RenderAll(RenderElement(d, elements[i], rnd), elements, i + 1, rnd)

\* spec.elements || spec.content || []
ElementsOf(spec) ==
  IF Has(spec, "elements") THEN spec.elements
  ELSE IF Has(spec, "content") THEN spec.content
  ELSE <<>>

\* _render(doc, spec) from a new document, when no renderer throws.
RenderSpec(spec, rnd) ==
  LET d == RenderAll(NewDocument, ElementsOf(spec), 1, rnd)
  IN IF Has(spec, "pageNumbers") THEN AddPageNumbers(d, spec.pageNumbers)
     ELSE d

\* engine.generateToBuffer(spec): the promise it returns, settled.
GenerateToBuffer(spec, rnd) ==
  IF \E i \in 1..Len(ElementsOf(spec)) : Throws(ElementsOf(spec)[i])
  THEN [settled |-> "rejected"]
  ELSE [settled |-> "resolved",
        value |-> <<Header, Body(RenderSpec(spec, rnd)), Trailer>>]

\* module.exports = { invoice, resume, report, contract, certificate, letter }
OwnTemplates ==
  {"invoice", "resume", "report", "contract", "certificate", "letter"}

\* templates[templateName]: the registry is an object literal, so a name
\* it does not define is looked up in Object.prototype.
TemplateLookup(name) ==
  CASE name \in OwnTemplates -> [is |-> "template", name |-> name]
    [] name = "constructor" -> [is |-> "function", name |-> "Object"]
    [] name \in {"toString", "valueOf", "hasOwnProperty"} ->
         [is |-> "function", name |-> name]
    [] name = "__proto__" -> [is |-> "object", name |-> "Object.prototype"]
    [] OTHER -> [is |-> "undefined", name |-> name]

\* The specification the templates of the inputs build.
TemplateSpec ==
  [elements |-> << [type |-> "heading", level |-> 1, value |-> Short],
                   [type |-> "text", value |-> Long] >>,
   pageNumbers |-> [align |-> "center"]]

\* templateFn(data): what the call returns, or that it throws.  A template
\* builds its specification or throws on data it cannot read (ok tells
\* which); Object(data) is data; Object.prototype.toString() is a string,
\* in which the engine finds no elements; the other functions of
\* Object.prototype throw without a receiver, and an object cannot be
\* called.
TemplateCall(fn, data, ok) ==
  CASE fn.is = "template" ->
         IF ok THEN [returns |-> TRUE, spec |-> TemplateSpec]
         ELSE [returns |-> FALSE]
    [] fn.is = "function" /\ fn.name = "Object" ->
         [returns |-> TRUE, spec |-> data]
    [] fn.is = "function" /\ fn.name = "toString" ->
         [returns |-> TRUE, spec |-> Empty]
    [] OTHER -> [returns |-> FALSE]

\* req.body.spec || req.body ;  req.body.data || req.body
SpecOfBody(body) == IF Has(body, "spec") THEN body.spec ELSE body

DataOfBody(body) == IF Has(body, "data") THEN body.data ELSE body

\* Mutant: POST /generate renders whatever it is sent.
ValidGenerateAny(body) == TRUE

\* POST /generate: !(!spec || (!spec.elements && !spec.content))
ValidGenerate(body) ==
  Has(SpecOfBody(body), "elements") \/ Has(SpecOfBody(body), "content")

\* POST /convert: !!req.body.html ;  POST /convert/url: !!req.body.url
ValidConvert(body) == StrOr(body, "html", "") # ""

ValidConvertUrl(body) == StrOr(body, "url", "") # ""

\* The request bodies.
SmallSpec ==
  [elements |-> << [type |-> "heading", level |-> 1, value |-> "API Test"],
                   [type |-> "link", value |-> "Click", url |-> Url] >>]

GenerateBodies ==
  { Empty,
    [spec |-> Empty],
    [spec |-> [pageNumbers |-> [align |-> "center"]]],
    [spec |-> SmallSpec],
    [spec |-> SmallSpec, filename |-> "a.pdf"],
    SmallSpec,
    [spec |-> [elements |-> <<>>]],
    [spec |-> [content |-> << [type |-> "text", value |-> Short] >>]],
    [spec |-> [elements |-> << [type |-> "text", value |-> Short],
                               [type |-> "image", src |-> "missing.png"] >>]],
    [spec |-> Empty, elements |-> << [type |-> "text", value |-> Short] >>] }

TemplateNames ==
  OwnTemplates
  \cup {"nonexistent", "Invoice", "constructor", "toString", "valueOf",
        "__proto__"}

TemplateBodies ==
  { Empty,
    [data |-> [title |-> "Report"]],
    [data |-> SmallSpec] }

ConvertBodies ==
  { Empty, [html |-> ""], [html |-> "<h1>Hello</h1>"],
    [html |-> "<h1>Hello</h1>", filename |-> "a.pdf"],
    [options |-> [format |-> "Letter"]] }

ConvertUrlBodies ==
  { Empty, [url |-> ""], [url |-> "https://example.com"],
    [html |-> "<h1>Hello</h1>"] }

PdfBytes == <<Header, [part |-> "body", pages |-> <<>>], Trailer>>

\* converter.convertHtmlToBuffer / convertUrlToBuffer: a collaborator that
\* returns the bytes of a document or raises an error.
ConverterOutcomes ==
  { [settled |-> "resolved", value |-> PdfBytes], [settled |-> "rejected"] }

InitServer ==
  /\ doc = NewDocument
  /\ pc = "idle"
  /\ n = 0
  /\ last = NoElement
  /\ lastRnd = [i \in 1..MaxBars |-> 0]
  /\ prev = NewDocument
  /\ numbering = NoPageNumbers
  /\ call = NoCall
  /\ server = [route |-> "(none)", served |-> 0]
  /\ engine = NewEngine
  /\ heap = <<>>
  /\ sess = <<>>

Request(route, name, body) ==
  [route |-> route, name |-> name, body |-> body, served |-> server.served,
   status |-> 0, type |-> "", sent |-> <<>>, templateCalls |-> 0,
   engineCalls |-> 0, converterCalls |-> 0, awaited |-> [settled |-> "none"]]

\* res.status(400).json({ error }) and the catch: res.status(500).json(...)
Json(r, status) ==
  [r EXCEPT !.status = status, !.type = "application/json",
            !.served = @ + 1]

\* The handler's part up to its await: the promise it waits for.
Await(r, promise) == [r EXCEPT !.awaited = promise]

\* POST /generate up to the await (or the 400).
PostGenerate ==
  /\ pc = "idle"
  /\ server.served < MaxRequests
  /\ \E body \in GenerateBodies :
       LET r == Request("/generate", "", body)
       IN IF ~ValidGenerate(body)
          THEN /\ server' = Json(r, 400)
               /\ pc' = "idle"
          ELSE /\ server' = Await([r EXCEPT !.engineCalls = @ + 1],
                                  GenerateToBuffer(SpecOfBody(body),
                                                   [i \in 1..MaxBars |-> 0]))
               /\ pc' = "awaiting"
  /\ UNCHANGED <<doc, n, last, lastRnd, prev, numbering, call, engine,
                 heap, sess>>

\* POST /generate/:template up to the await (or the 400, or the catch
\* when templateFn(data) throws).
PostTemplate ==
  /\ pc = "idle"
  /\ server.served < MaxRequests
  /\ \E name \in TemplateNames, body \in TemplateBodies, ok \in BOOLEAN :
       LET r == Request("/generate/:template", name, body)
           fn == TemplateLookup(name)
           t == TemplateCall(fn, DataOfBody(body), ok)
           r1 == [r EXCEPT !.templateCalls = @ + 1]
       IN IF fn.is = "undefined"
          THEN /\ server' = Json(r, 400)
               /\ pc' = "idle"
          ELSE IF ~t.returns
          THEN /\ server' = Json(r1, 500)
               /\ pc' = "idle"
          ELSE /\ server' = Await([r1 EXCEPT !.engineCalls = @ + 1],
                                  GenerateToBuffer(t.spec,
                                                   [i \in 1..MaxBars |-> 0]))
               /\ pc' = "awaiting"
  /\ UNCHANGED <<doc, n, last, lastRnd, prev, numbering, call, engine,
                 heap, sess>>

\* POST /convert up to the await (or the 400).
PostConvert ==
  /\ pc = "idle"
  /\ server.served < MaxRequests
  /\ \E body \in ConvertBodies, out \in ConverterOutcomes :
       LET r == Request("/convert", "", body)
       IN IF ~ValidConvert(body)
          THEN /\ server' = Json(r, 400)
               /\ pc' = "idle"
          ELSE /\ server' = Await([r EXCEPT !.converterCalls = @ + 1], out)
               /\ pc' = "awaiting"
  /\ UNCHANGED <<doc, n, last, lastRnd, prev, numbering, call, engine,
                 heap, sess>>

\* POST /convert/url up to the await (or the 400).
PostConvertUrl ==
  /\ pc = "idle"
  /\ server.served < MaxRequests
  /\ \E body \in ConvertUrlBodies, out \in ConverterOutcomes :
       LET r == Request("/convert/url", "", body)
       IN IF ~ValidConvertUrl(body)
          THEN /\ server' = Json(r, 400)
               /\ pc' = "idle"
          ELSE /\ server' = Await([r EXCEPT !.converterCalls = @ + 1], out)
               /\ pc' = "awaiting"
  /\ UNCHANGED <<doc, n, last, lastRnd, prev, numbering, call, engine,
                 heap, sess>>

\* After the await: res.set({ "Content-Type": "application/pdf", ... }) and
\* res.send(buffer), or the catch.
Respond ==
  /\ pc = "awaiting"
  /\ server' = IF server.awaited.settled = "resolved"
               THEN [server EXCEPT !.status = 200,
                                   !.type = "application/pdf",
                                   !.sent = server.awaited.value,
                                   !.served = @ + 1]
               ELSE Json(server, 500)
  /\ pc' = "idle"
  /\ UNCHANGED <<doc, n, last, lastRnd, prev, numbering, call, engine,
                 heap, sess>>

NextServer ==
  PostGenerate \/ PostTemplate \/ PostConvert \/ PostConvertUrl \/ Respond

SpecServer == InitServer /\ [][NextServer]_vars

\* A response has been sent to the request in server.
Responded == pc = "idle" /\ server.route # "(none)"

\* C13: POST /generate/:template with a name that is not one of the six
\* registered templates responds 400 and calls neither a template function
\* nor the engine.
C13_UnknownTemplateIs400 ==
  (server.route = "/generate/:template" /\ server.name \notin OwnTemplates) =>
    /\ server.templateCalls = 0
    /\ server.engineCalls = 0
    /\ Responded => server.status = 400

\* The required body field of the request in server is there.
FieldPresent ==
  CASE server.route = "/generate" ->
         Has(SpecOfBody(server.body), "elements")
           \/ Has(SpecOfBody(server.body), "content")
    [] server.route = "/convert" -> StrOr(server.body, "html", "") # ""
    [] server.route = "/convert/url" -> StrOr(server.body, "url", "") # ""
    [] OTHER -> FALSE

Calls == server.engineCalls + server.converterCalls

\* C14: /generate without elements (or content), /convert without html and
\* /convert/url without url respond 400 and call neither the engine nor
\* the converter; a request that passes validation makes one call and is
\* answered 200 with Content-Type application/pdf and the bytes generated,
\* or, when generation throws, 500 with a JSON error.
C14_ValidateThenGenerate ==
  server.route \in {"/generate", "/convert", "/convert/url"} =>
    IF ~FieldPresent
    THEN /\ Calls = 0
         /\ Responded
         /\ server.status = 400
         /\ server.type = "application/json"
    ELSE /\ Calls = 1
         /\ (server.route = "/generate") <=> (server.engineCalls = 1)
         /\ Responded =>
              IF server.awaited.settled = "resolved"
              THEN /\ server.status = 200
                   /\ server.type = "application/pdf"
                   /\ server.sent = server.awaited.value
                   /\ server.sent[1] = Header
              ELSE /\ server.status = 500
                   /\ server.type = "application/json"
                   /\ server.sent = <<>>

\* C14 witness: a /generate request that passed validation and whose
\* generation threw, answered 500, after a request answered 400.
C14_Witness ==
  /\ Responded
  /\ server.served = 2
  /\ server.route = "/generate"
  /\ FieldPresent
  /\ server.engineCalls = 1
  /\ server.status = 500

(* ---------------------------------------------------------------------- *)
(*  Claims on the overlay, on repeated and concurrent sessions, and on    *)
(*  the cells of a table                                                  *)
(* ---------------------------------------------------------------------- *)

\* The overlay rectangle the last step painted, with its page.
OverlayRects ==
  { q \in NewPlaced : q.op.op = "rect" /\ q.op.tag.part = "overlay" }

\* C15: an overlay with a URL registers a clickable region bound to it
\* whose rectangle is the whole overlay rectangle (left margin, the cursor
\* y before the bars, content width, the overlay height), on the page the
\* overlay rectangle was painted on; an overlay without a URL registers no
\* clickable region.
C15_OverlayRegion ==
  Dispatched("overlay") =>
    IF StrOr(last, "url", "") # ""
    THEN \E q \in NewRegions :
           /\ q.op.url = last.url
           /\ q.op.x = MarginLeft
           /\ q.op.y = prev.y
           /\ q.op.w = ContentWidth
           /\ q.op.h = NumOr(last, "height", Pt(200))
           /\ \E r \in OverlayRects :
                /\ r.page = q.page
                /\ r.op.x = q.op.x /\ r.op.y = q.op.y
                /\ r.op.w = q.op.w /\ r.op.h = q.op.h
    ELSE NewRegions = {}

\* What rendering added to the pages, each primitive with its page, the
\* widths of the overlay bars left out.
Added(before, after) ==
  UNION { { [page |-> p,
             op |-> IF after.pages[p][k].tag.part = "bar"
                    THEN [after.pages[p][k] EXCEPT !.w = 0]
                    ELSE after.pages[p][k]] :
            k \in (IF p <= Len(before.pages) THEN Len(before.pages[p]) ELSE 0) + 1
                  .. Len(after.pages[p]) } :
          p \in 1..Len(after.pages) }

\* The layout of an element rendered after d: what it adds, and the page
\* and the cursor it ends at.
LayoutAfter(d, f) ==
  LET a == RenderElement(d, f, [i \in 1..MaxBars |-> 0])
  IN [added |-> Added(d, a), cur |-> a.cur, x |-> a.x, y |-> a.y]

\* The elements rendered after an overlay, the bar counts and the label
\* sizes the overlay is varied over.
Followers ==
  { [type |-> "text", value |-> Short],
    [type |-> "spacer"],
    [type |-> "table", headers |-> <<"Row">>, rows |-> << << [str |-> "r0"] >> >>] }

BarCounts == {0, MaxBars}

LabelSizes == {12, 30}

\* The overlay dispatched last with another bar count and label size.
OverlayVariant(k, sz) == ("lines" :> k) @@ ("labelSize" :> sz) @@ last

\* C16 as stated: the cursor after an overlay is (left margin, startY + H +
\* 10), and this and the layout of every following element are the same
\* for every choice of the random bar widths, every bar count and every
\* label size.
C16_OverlayLayoutAnyLabel ==
  Dispatched("overlay") =>
    /\ doc.x = MarginLeft
    /\ doc.y = prev.y + NumOr(last, "height", Pt(200)) + Pt(10)
    /\ \A rnd \in RandomStreams, k \in BarCounts, sz \in LabelSizes :
         LET v == RenderOverlay(prev, OverlayVariant(k, sz), rnd)
         IN /\ v.x = doc.x /\ v.y = doc.y
            /\ \A f \in Followers : LayoutAfter(v, f) = LayoutAfter(doc, f)

\* C16 amended: the cursor after an overlay is (left margin, startY + H +
\* 10) for every choice of the random bar widths, every bar count and
\* every label size; the page it is on and the layout of every following
\* element are the same for every choice of the random bar widths and
\* every bar count.
C16_OverlayLayoutAnyBars ==
  Dispatched("overlay") =>
    /\ doc.x = MarginLeft
    /\ doc.y = prev.y + NumOr(last, "height", Pt(200)) + Pt(10)
    /\ \A rnd \in RandomStreams, k \in BarCounts :
         /\ \A sz \in LabelSizes :
              LET v == RenderOverlay(prev, OverlayVariant(k, sz), rnd)
              IN v.x = doc.x /\ v.y = doc.y
         /\ LET v == RenderOverlay(prev, ("lines" :> k) @@ last, rnd)
            IN /\ v.cur = doc.cur
               /\ \A f \in Followers : LayoutAfter(v, f) = LayoutAfter(doc, f)

\* C16 witness: an overlay below other content whose bars drew other
\* widths than the narrowest ones.
C16_Witness ==
  /\ Dispatched("overlay")
  /\ prev.y > MarginTop
  /\ lastRnd[1] # 0
  /\ \E q \in NewPlaced :
       q.op.tag.part = "bar" /\ q.op.w > (ContentWidth * 400) \div 1000

(* ---------------------------------------------------------------------- *)
(*  Render sessions on one shared engine (the server's engine)            *)
(* ---------------------------------------------------------------------- *)

\* The number of sessions started on the engine.
MaxSessions == 2

\* The specifications the sessions render.
SessionSpecs ==
  { [elements |-> <<>>],
    [elements |-> << [type |-> "heading", level |-> 1, value |-> Short],
                     [type |-> "text", value |-> Long],
                     [type |-> "table", headers |-> <<"Name", "Link">>,
                      rows |-> << << [str |-> "Google"],
                                     [text |-> "Visit", link |-> Url] >> >>] >>,
     pageNumbers |-> [align |-> "center"]],
    [size |-> "A4",
     elements |-> << [type |-> "pageBreak"],
                     [type |-> "columns",
                      columns |-> << [elements |-> << [type |-> "text",
                                                       value |-> Long] >>],
                                     [elements |-> << [type |-> "link",
                                                       value |-> Short,
                                                       url |-> Url] >>] >>],
                     [type |-> "divider"] >>],
    [elements |-> << [type |-> "overlay", url |-> Url],
                     [type |-> "spacer"] >>],
    [elements |-> << [type |-> "text", value |-> Short],
                     [type |-> "image", src |-> "missing.png"] >>] }

\* _createDocument(spec): the options of the new document.
DocOptions(eng, spec) ==
  [size |-> StrOr(spec, "size", eng.size),
   margins |-> Nullish(spec, "margins", eng.margins),
   info |-> Nullish(spec, "meta", Empty),
   autoFirstPage |-> TRUE, bufferPages |-> TRUE]

\* Mutant: the engine keeps one document and hands it to every session.
NewDocIdReused(h) == 1

\* new PDFDocument(docOpts) is a new object: its identity.
NewDocId(h) == Len(h) + 1

Store(h, id, obj) ==
  IF id <= Len(h) THEN [h EXCEPT ![id] = obj] ELSE Append(h, obj)

\* The executor of generateToBuffer, which runs to its end without
\* yielding: the document object after _createDocument, _render and
\* doc.end(), or after the renderer that threw.
Executed(eng, spec, rnd) ==
  IF \E i \in 1..Len(ElementsOf(spec)) : Throws(ElementsOf(spec)[i])
  THEN [opts |-> DocOptions(eng, spec), doc |-> NewDocument,
        stream |-> NewStream, ended |-> FALSE]
  ELSE CHOOSE obj \in { [opts |-> DocOptions(eng, spec), doc |-> d,
                         stream |-> NewStream \o <<Body(d), Trailer>>,
                         ended |-> TRUE] :
                        d \in {RenderSpec(spec, rnd)} } : TRUE

\* What a session leaves: how its promise settled, the bytes, and the
\* pages, page count and cursor of its document.
Outcome(obj) ==
  IF obj.ended
  THEN [settled |-> "resolved", opts |-> obj.opts, bytes |-> obj.stream,
        pages |-> obj.doc.pages, count |-> Len(obj.doc.pages),
        cursor |-> <<obj.doc.cur, obj.doc.x, obj.doc.y>>]
  ELSE [settled |-> "rejected"]

InitSessions ==
  /\ doc = NewDocument
  /\ pc = "serving"
  /\ n = 0
  /\ last = NoElement
  /\ lastRnd = [i \in 1..MaxBars |-> 0]
  /\ prev = NewDocument
  /\ numbering = NoPageNumbers
  /\ OutsideInit

\* engine.generateToBuffer(spec) called: the executor runs.
SessionRun ==
  /\ Len(sess) < MaxSessions
  /\ \E spec \in SessionSpecs, rnd \in RandomStreams :
       \E obj \in {Executed(engine, spec, rnd)} :
         LET id == NewDocId(heap)
         IN /\ heap' = Store(heap, id, obj)
            /\ sess' = Append(sess, [spec |-> spec, rnd |-> rnd, doc |-> id,
                                     state |-> IF obj.ended THEN "ended"
                                               ELSE "rejected",
                                     out |-> IF obj.ended
                                             THEN [settled |-> "pending"]
                                             ELSE Outcome(obj)])
  /\ UNCHANGED <<doc, pc, n, last, lastRnd, prev, numbering,
                 call, server, engine>>

\* The "data" and "end" events of a session's document: the promise is
\* resolved with what the document of the session holds.
SessionDeliver ==
  /\ \E i \in 1..Len(sess) :
       /\ sess[i].state = "ended"
       /\ sess' = [sess EXCEPT ![i].state = "resolved",
                               ![i].out = Outcome(heap[sess[i].doc])]
  /\ UNCHANGED <<doc, pc, n, last, lastRnd, prev, numbering,
                 call, server, engine, heap>>

NextSessions == SessionRun \/ SessionDeliver

SpecSessions == InitSessions /\ [][NextSessions]_vars

\* No overlay among the elements of a specification.
RECURSIVE NoOverlay(_, _)
NoOverlay(elements, i) ==
  IF i > Len(elements) THEN TRUE
  ELSE ~UsesRandom(elements[i]) /\ NoOverlay(elements, i + 1)

Settled(i) == sess[i].state \in {"resolved", "rejected"}

C18_SessionsIndependent ==
  /\ engine = NewEngine
  /\ \A i, j \in 1..Len(sess) : i # j => sess[i].doc # sess[j].doc
  /\ \A i \in 1..Len(sess) :
       Settled(i) => sess[i].out = Outcome(Executed(NewEngine, sess[i].spec,
                                                    sess[i].rnd))

\* C18 witness: two sessions with different specifications, the second
\* executed before the events of the first were delivered, the first
\* resolved and the second still waiting for its events.
C18_Witness ==
  /\ Len(sess) = 2
  /\ sess[1].spec # sess[2].spec
  /\ sess[1].state = "resolved"
  /\ sess[2].state = "ended"
  /\ sess[1].out.count >= 1
  /\ sess[1].out.pages # heap[sess[2].doc].doc.pages

\* The column widths of the table dispatched last, the width of the cell
\* in column ci (1-based) and the left edge of that cell.
LastColWidths ==
  Nullish(last, "columnWidths",
          AutoColumnWidths(Len(Nullish(last, "headers", <<>>))))

CellWidth(ci) ==
  IF ci <= Len(LastColWidths) /\ LastColWidths[ci] # 0
  THEN LastColWidths[ci] ELSE Pt(100)

RECURSIVE CellLeft(_)
CellLeft(ci) ==
  IF ci = 1 THEN NumOr(last, "x", prev.x)
  ELSE CellLeft(ci - 1) + CellWidth(ci - 1)

\* The body cells of the table dispatched last that carry a link.
LinkedCells ==
  { c \in UNION { { [row |-> ri, col |-> ci] : ci \in 1..Len(LastRows[ri]) } :
                  ri \in 1..Len(LastRows) } :
      LET cell == LastRows[c.row][c.col]
      IN ~IsString(cell) /\ cell # Undefined /\ StrOr(cell, "link", "") # "" }

\* The clickable regions the last step registered for the cell c.
CellRegions(c) ==
  { q \in NewRegions :
      /\ q.op.tag.part = "textlink"
      /\ q.op.tag.of.part = "cell"
      /\ q.op.tag.of.row = c.row - 1
      /\ q.op.tag.of.col = c.col }

\* C20: the clickable region of a table body cell that carries a link is
\* the cell's box (the column width by the row height at the cell's
\* position, or that box less the padding), not the extent of the text in
\* it.
C20_CellLinkIsCellBox ==
  Dispatched("table") =>
    \A c \in LinkedCells :
      /\ CellRegions(c) # {}
      /\ \A q \in CellRegions(c) :
           LET pad == NumOr(last, "cellPadding", Pt(5))
               x0 == CellLeft(c.col)
               y0 == q.op.tag.of.top
               w == CellWidth(c.col)
               h == TableRowHeight(last)
           IN /\ q.op.url = LastRows[c.row][c.col].link
              /\ \/ /\ q.op.x = x0 /\ q.op.y = y0
                    /\ q.op.w = w /\ q.op.h = h
                 \/ /\ q.op.x = x0 + pad /\ q.op.y = y0 + pad
                    /\ q.op.w = w - 2 * pad /\ q.op.h = h - 2 * pad

(* ---------------------------------------------------------------------- *)
(*  The table renderer: cursor, column widths, header row, cell text      *)
(* ---------------------------------------------------------------------- *)

LastHeaders == Nullish(last, "headers", <<>>)

\* The rows the last table painted, header row included, as the tops the
\* row loop gave them; the last painted row is the last body row, or the
\* header row of a table without body rows.
LastRowTops ==
  IF Len(LastRows) # 0
  THEN { q.op.tag.top : q \in RowPlaced(Len(LastRows) - 1) }
  ELSE { q.op.tag.top : q \in { r \in NewPlaced : r.op.tag.part = "headerbg" } }

\* The plain text written after a table in the same column.
TextsAfterColumnTable ==
  { q \in NewTexts : q.op.tag = NoTag /\ q.op.str = "After" }

\* C21: after the table renderer returns the cursor's horizontal position
\* is the content-area left margin and its vertical position is the bottom
\* edge of the last painted row plus 5, for a table with or without an
\* explicit x and for a table inside a column (seen there by where the
\* text that follows the table in its column is written).
C21_TableCursor ==
  /\ Dispatched("table") =>
       /\ doc.x = MarginLeft
       /\ \A top \in LastRowTops : doc.y = top + TableRowHeight(last) + Pt(5)
  /\ Dispatched("columns") =>
       \A q \in TextsAfterColumnTable : q.op.x = MarginLeft

\* The number of columns of the table dispatched last: its header labels,
\* or the cells of its longest row when it has no header row.
RECURSIVE LongestRow(_, _)
LongestRow(rows, i) ==
  IF i > Len(rows) THEN 0 ELSE Max(Len(rows[i]), LongestRow(rows, i + 1))

LastColumnCount ==
  IF Len(LastHeaders) # 0 THEN Len(LastHeaders) ELSE LongestRow(LastRows, 1)

\* The header labels and body cells the last table wrote.
TableTexts == { q \in NewTexts : q.op.tag.part \in {"cell", "header"} }

\* C22: a table without explicit columnWidths gives every column of every
\* row, header or body, the width contentWidth / columnCount (each text is
\* written in that width less the padding, at the column's offset), also
\* when the table has body rows but no header row.
C22_AutoColumnWidths ==
  (Dispatched("table") /\ ~Has(last, "columnWidths") /\ LastColumnCount # 0) =>
    \A q \in TableTexts :
      LET pad == NumOr(last, "cellPadding", Pt(5))
          w == ContentWidth \div LastColumnCount
      IN /\ q.op.w = w - 2 * pad
         /\ q.op.x = NumOr(last, "x", prev.x) + (q.op.tag.col - 1) * w + pad

(* ---------------------------------------------------------------------- *)
(*  Text, heading, list, image, stealth link: what one renderer leaves    *)
(* ---------------------------------------------------------------------- *)

\* Where the text write of the last step left the cursor: below the last
\* line it wrote, or where the write started when the string was empty.
AfterWrite ==
  LET ops == NewOps(doc.cur)
      ks == { k \in 1..Len(ops) : ops[k].op = "text" }
  IN IF ks = {}
     THEN IF Len(doc.pages) > Len(prev.pages) THEN MarginTop ELSE prev.y
     ELSE LET k == CHOOSE j \in ks : \A i \in ks : i <= j
          IN ops[k].y + ops[k].h

\* Lines of the font the renderer left, in thousandths of a line.
LinesDown(lines) == (LineHeight(doc.font, doc.fontSize) * lines) \div 1000

\* C23: after a text element or a heading element the cursor is below the
\* last line written (the natural line height consumed by the write) and
\* nothing more when no moveDown is configured, and n lines further down
\* when moveDown = n is configured.
C23_AdvanceAfterText ==
  (Dispatched("text") \/ Dispatched("heading")) =>
    doc.y = AfterWrite + LinesDown(Nullish(last, "moveDown", 0))

LastItems == Nullish(last, "items", <<>>)

\* The first line of each text run the last list wrote for item i (1-based),
\* and the clickable regions registered with the runs of item i.
ItemRuns(i) ==
  { q \in NewTexts : q.op.tag.part = "item" /\ q.op.tag.item = i /\ q.op.line = 1 }

ItemRegions(i) ==
  { q \in NewRegions : /\ q.op.tag.part = "textlink"
                       /\ q.op.tag.of.part = "item"
                       /\ q.op.tag.of.item = i }

\* `${i + 1}. ` or the bullet glyph, and the text of an item.
ItemPrefix(i) == IF Truthy(last, "ordered") THEN ToString(i) \o ". " ELSE "* "

ItemText(item) == IF IsString(item) THEN item.str ELSE StrOr(item, "text", "")

ItemCarriesLink(item) == ~IsString(item) /\ StrOr(item, "link", "") # ""

\* C24: the list renderer writes exactly one text run per item, in item
\* order, the run of the item at 1-based position N being "N. " and the
\* item's text for an ordered list and the bullet and the item's text
\* otherwise; a clickable region is registered for an item exactly when it
\* carries a link, and it is bound to that link; after the last item the
\* cursor advances by the trailing gap (default half a line).
C24_ListRuns ==
  Dispatched("list") =>
    /\ \A i \in 1..Len(LastItems) :
         /\ Cardinality(ItemRuns(i)) = 1
         /\ \A q \in ItemRuns(i) :
              q.op.str = ItemPrefix(i) \o ItemText(LastItems[i])
         /\ (ItemRegions(i) # {}) <=> ItemCarriesLink(LastItems[i])
    /\ \A i, j \in 1..Len(LastItems) :
         i < j => \A a \in ItemRuns(i), b \in ItemRuns(j) :
                    \/ a.page < b.page
                    \/ a.page = b.page /\ a.op.y < b.op.y
    /\ { q \in NewTexts : q.op.tag.part # "item" } = {}
    /\ doc.y = AfterWrite + LinesDown(Nullish(last, "moveDown", 500))

\* The link a run of the list is written with: the item's own for an
\* object item, the list element's for a plain string.
ItemLink(item) ==
  IF IsString(item) THEN StrOr(last, "link", "") ELSE StrOr(item, "link", "")

\* C24, amended: as C24, with the clickable region of an item registered
\* exactly when the run is written with a link: the item's own link for an
\* object item, the link attribute of the list element for a plain string.
C24_ListRunsOwnLink ==
  Dispatched("list") =>
    /\ \A i \in 1..Len(LastItems) :
         /\ Cardinality(ItemRuns(i)) = 1
         /\ \A q \in ItemRuns(i) :
              q.op.str = ItemPrefix(i) \o ItemText(LastItems[i])
         /\ (ItemRegions(i) # {}) <=> (ItemLink(LastItems[i]) # "")
         /\ \A q \in ItemRegions(i) : q.op.url = ItemLink(LastItems[i])
    /\ \A i, j \in 1..Len(LastItems) :
         i < j => \A a \in ItemRuns(i), b \in ItemRuns(j) :
                    \/ a.page < b.page
                    \/ a.page = b.page /\ a.op.y < b.op.y
    /\ { q \in NewTexts : q.op.tag.part # "item" } = {}
    /\ doc.y = AfterWrite + LinesDown(Nullish(last, "moveDown", 500))

\* C24 witness: an ordered list of three items, the first linked, written
\* with a configured trailing gap of one line.
C24_Witness ==
  /\ Dispatched("list")
  /\ Truthy(last, "ordered")
  /\ Len(LastItems) = 3
  /\ ItemRegions(1) # {} /\ ItemRegions(2) = {}
  /\ \E q \in ItemRuns(3) : q.op.str = "3. " \o Long
  /\ doc.y = AfterWrite + LinesDown(1000)

\* The images the last step placed.
NewImages == { q \in NewPlaced : q.op.op = "image" }

SameBox(a, b) ==
  /\ a.page = b.page
  /\ a.op.x = b.op.x /\ a.op.y = b.op.y
  /\ a.op.w = b.op.w /\ a.op.h = b.op.h

\* C25: the clickable region of an image element with a link coincides
\* with the rectangle the image was placed in (same page, origin, width and
\* height), for an image placed at explicit x/y and for one placed at the
\* cursor.
C25_ImageRegionIsImageBox ==
  (Dispatched("image") /\ StrOr(last, "link", "") # "") =>
    /\ NewRegions # {}
    /\ \A r \in NewRegions : \E q \in NewImages : SameBox(r, q)

(* ---------------------------------------------------------------------- *)
(*  HtmlToPdfConverter._convert: the browser it launches                  *)
(*  sess holds the calls of _convert, heap the browsers launched.         *)
(* ---------------------------------------------------------------------- *)

\* The number of calls of _convert in flight at once.
MaxConversions == 1

\* The candidates of detectChromePath, in the order they are tried (the
\* first two and the last of the list).
ChromeCandidates ==
  << "/usr/bin/chromium", "/usr/bin/chromium-browser",
     "C:\\Program Files (x86)\\Google\\Chrome\\Application\\chrome.exe" >>

\* The machine the converter runs on: PUPPETEER_EXECUTABLE_PATH, the files
\* that exist, what `which` prints ("" when it finds nothing or fails).
Machines ==
  { [override |-> "/opt/chrome", files |-> {}, which |-> ""],
    [override |-> "", files |-> {"/usr/bin/chromium-browser"}, which |-> ""],
    [override |-> "", files |-> {}, which |-> "/usr/local/bin/chromium"],
    [override |-> "", files |-> {}, which |-> ""] }

NotFound == ""

\* The first candidate from position i on that exists.
RECURSIVE FirstExisting(_, _)
FirstExisting(m, i) ==
  IF i > Len(ChromeCandidates) THEN NotFound
  ELSE IF ChromeCandidates[i] \in m.files THEN ChromeCandidates[i]
  ELSE FirstExisting(m, i + 1)

\* detectChromePath()
DetectChromePath(m) ==
  IF m.override # "" THEN m.override
  ELSE IF FirstExisting(m, 1) # NotFound THEN FirstExisting(m, 1)
  ELSE m.which

\* The awaits of _convert after the launch, in order; page.evaluate is
\* awaited only when merged.meta.title is set.
Pipeline(c) ==
  << "newPage", "setViewport", "emulateMediaType",
     IF c.input.type = "url" THEN "goto" ELSE "setContent", "addStyleTag" >>
  \o (IF c.title # "" THEN <<"evaluate">> ELSE <<>>)
  \o <<"pdf">>

ConvertInputs ==
  { [type |-> "html", source |-> "<h1>Hi</h1>"],
    [type |-> "url", source |-> "https://example.com"] }

Titles == {"", "Report"}

\* Mutant: the browser is closed only after a PDF was produced.
ClosesBrowserOnSuccess(c) == c.browser # 0 /\ c.result = "returned"

\* finally { if (browser) await browser.close(); }
ClosesBrowser(c) == c.browser # 0

\* The finally block entered by conversion c with the given result: it
\* calls browser.close() and awaits it, or has nothing to await and the
\* promise settles.
Finally(c, result) ==
  LET c1 == [c EXCEPT !.result = result]
  IN IF ClosesBrowser(c1)
     THEN [c1 EXCEPT !.at = "close"]
     ELSE [c1 EXCEPT !.at = "done",
                     !.promise = IF result = "returned" THEN "resolved"
                                 ELSE "rejected"]

\* browser.close() called on the browsers conversion c closes.
Closed(h, c) ==
  IF c.at = "close" THEN [h EXCEPT ![c.browser].closes = @ + 1] ELSE h

InitConvert ==
  /\ doc = NewDocument
  /\ pc = "converting"
  /\ n = 0
  /\ last = NoElement
  /\ lastRnd = [i \in 1..MaxBars |-> 0]
  /\ prev = NewDocument
  /\ numbering = NoPageNumbers
  /\ OutsideInit

ConvertFrame == UNCHANGED <<doc, pc, n, last, lastRnd, prev, numbering,
                            call, server, engine>>

\* _convert(input, overrides) called: it runs to its first await, the
\* launch, or throws when no executable is found.
ConvertCall ==
  /\ pc = "converting"
  /\ Len(sess) < MaxConversions
  /\ \E input \in ConvertInputs, title \in Titles, m \in Machines :
       LET c == [input |-> input, title |-> title,
                 execPath |-> DetectChromePath(m), browser |-> 0,
                 at |-> "launch", result |-> "running",
                 promise |-> "pending"]
       IN sess' = Append(sess, IF c.execPath = NotFound
                               THEN Finally(c, "threw") ELSE c)
  /\ UNCHANGED heap
  /\ ConvertFrame

\* puppeteer.launch(launchOptions) settles: a new browser, or an error.
ConvertLaunched ==
  /\ \E i \in 1..Len(sess), ok \in BOOLEAN :
       /\ sess[i].at = "launch"
       /\ IF ok
          THEN /\ heap' = Append(heap, [owner |-> i, closes |-> 0])
               /\ sess' = [sess EXCEPT ![i].browser = Len(heap) + 1,
                                       ![i].at = Pipeline(sess[i])[1]]
          ELSE /\ heap' = heap
               /\ sess' = [sess EXCEPT ![i] = Finally(@, "threw")]
  /\ ConvertFrame

\* The await of one later step settles: the next step is started, the
\* buffer of page.pdf is returned, or the error is thrown.
ConvertStep ==
  /\ \E i \in 1..Len(sess), ok \in BOOLEAN :
       LET c == sess[i]
           steps == Pipeline(c)
           k == CHOOSE j \in 1..Len(steps) : steps[j] = c.at
           c1 == IF ~ok THEN Finally(c, "threw")
                 ELSE IF k = Len(steps) THEN Finally(c, "returned")
                 ELSE [c EXCEPT !.at = steps[k + 1]]
       IN /\ \E j \in 1..Len(steps) : steps[j] = c.at
          /\ sess' = [sess EXCEPT ![i] = c1]
          /\ heap' = Closed(heap, c1)
  /\ ConvertFrame

\* browser.close() settles, and with it the promise of _convert.
ConvertClosed ==
  /\ \E i \in 1..Len(sess), ok \in BOOLEAN :
       /\ sess[i].at = "close"
       /\ sess' = [sess EXCEPT
                     ![i].at = "done",
                     ![i].promise = IF ok /\ sess[i].result = "returned"
                                    THEN "resolved" ELSE "rejected"]
  /\ UNCHANGED heap
  /\ ConvertFrame

NextConvert == ConvertCall \/ ConvertLaunched \/ ConvertStep \/ ConvertClosed

SpecConvert == InitConvert /\ [][NextConvert]_vars

\* C26: _convert never leaves a launched browser open: once the promise of
\* a call has settled, the browser the call launched has had close()
\* called on it exactly once (after a PDF, after a navigation timeout and
\* after an error in any later step alike), no browser is ever closed
\* twice, and a call that found no Chrome executable is rejected without
\* having launched a browser.
C26_BrowserClosedOnce ==
  pc = "converting" =>
    /\ \A b \in 1..Len(heap) :
         /\ heap[b].closes <= 1
         /\ sess[heap[b].owner].promise # "pending" => heap[b].closes = 1
         /\ sess[heap[b].owner].browser = b
    /\ \A i \in 1..Len(sess) :
         sess[i].execPath = NotFound =>
           /\ sess[i].promise = "rejected"
           /\ \A b \in 1..Len(heap) : heap[b].owner # i

\* C26 witness: a call that launched a browser, failed in a later step
\* (the navigation of a URL among them) and was rejected with the browser
\* closed once.
C26_Witness ==
  /\ pc = "converting"
  /\ Len(sess) >= 1 /\ Len(heap) >= 1
  /\ sess[1].input.type = "url"
  /\ sess[1].promise = "rejected" /\ sess[1].result = "threw"
  /\ sess[1].browser = 1
  /\ heap[1].closes = 1

(* ---------------------------------------------------------------------- *)
(*  The columns renderer: what each column's children put on the pages    *)
(* ---------------------------------------------------------------------- *)

LastColumns == Nullish(last, "columns", <<>>)

\* The left edge of column i (1-based here) of the columns element
\* dispatched last.
ColumnLeft(i) ==
  MarginLeft + (i - 1) * (ColWidth(last) + NumOr(last, "gap", Pt(20)))

\* The document when the children of column i have been rendered.
RECURSIVE AfterColumn(_)
AfterColumn(i) ==
  IF i = 0 THEN prev
  ELSE ColumnChildren([AfterColumn(i - 1) EXCEPT !.x = ColumnLeft(i),
                                                 !.y = prev.y],
                      Nullish(LastColumns[i], "elements", <<>>), 1,
                      ColWidth(last), lastRnd)

\* What was put on the pages between two documents of one session.
PlacedBetween(before, after) ==
  UNION { { [page |-> p, op |-> after.pages[p][k]] :
            k \in (IF p <= Len(before.pages) THEN Len(before.pages[p]) ELSE 0) + 1
                  .. Len(after.pages[p]) } :
          p \in 1..Len(after.pages) }

\* C27: every drawing primitive and clickable region emitted by a child
\* rendered inside column i of a columns element lies horizontally within
\* the band of that column, [left, left + colWidth] with
\* left = leftMargin + i * (colWidth + gap) for the 0-based i, whatever the
\* kind of the child.
C27_ChildrenInColumnBand ==
  Dispatched("columns") =>
    \A i \in 1..Len(LastColumns) :
      \A q \in PlacedBetween(AfterColumn(i - 1), AfterColumn(i)) :
        /\ ColumnLeft(i) <= q.op.x
        /\ q.op.x + q.op.w <= ColumnLeft(i) + ColWidth(last)

(* ---------------------------------------------------------------------- *)
(*  The stealth link: the region against the text it was written for      *)
(* ---------------------------------------------------------------------- *)

StealthRegions == { q \in NewRegions : q.op.tag.part = "stealth" }

StealthTexts == { q \in NewTexts : q.op.tag.part = "stealth" }

StealthDispatched ==
  \/ Dispatched("stealthLink")
  \/ Dispatched("link") /\ Truthy(last, "stealth")

\* C28: the clickable region of a stealth link is the box consumed by its
\* text: it starts at the cursor recorded before the text write, its height
\* is not negative, it is on the page the text was written on and every
\* line of the text lies within it, also when the text write runs over
\* onto a new page.
C28_StealthRegionIsTextBox ==
  (StealthDispatched /\ StrOr(last, "url", "") # "") =>
    /\ StealthRegions # {}
    /\ \A r \in StealthRegions :
         /\ r.op.x = prev.x /\ r.op.y = prev.y
         /\ r.op.h >= 0
         /\ \A t \in StealthTexts :
              /\ t.page = r.page
              /\ r.op.y <= t.op.y
              /\ t.op.y + t.op.h <= r.op.y + r.op.h

\* What the last table painted for its header row.
HeaderPlaced ==
  { q \in NewPlaced : q.op.tag.part \in {"headerbg", "header"} }

\* C29: the header row of a table is never cut off at the page bottom: its
\* rectangle and its labels are painted on one page, with the bottom edge
\* of the row (its top + rowHeight) not below pageHeight - marginBottom.
C29_HeaderOnOnePage ==
  Dispatched("table") =>
    \A a, b \in HeaderPlaced :
      /\ a.page = b.page
      /\ a.op.tag.top + TableRowHeight(last) <= PageHeight - MarginBottom

\* The text a body cell stands for: its own string, the text attribute of
\* an object, nothing for undefined or null.
CellText(cell) ==
  IF IsString(cell) THEN cell.str
  ELSE IF cell = Undefined THEN ""
  ELSE StrOr(cell, "text", "")

\* The lines the last table wrote for the cell in row ri, column ci
\* (both 1-based here).
CellWritten(ri, ci) ==
  { q \in NewTexts : /\ q.op.tag.part = "cell"
                     /\ q.op.tag.row = ri - 1
                     /\ q.op.tag.col = ci }

\* C30: the text written for a table body cell is the cell's own string
\* for a plain-text cell, the cell's text attribute for an object cell,
\* with or without a link, and the empty string (nothing written) for an
\* undefined or null cell.
C30_CellText ==
  Dispatched("table") =>
    \A ri \in 1..Len(LastRows) :
      \A ci \in 1..Len(LastRows[ri]) :
        /\ \A q \in CellWritten(ri, ci) : q.op.str = CellText(LastRows[ri][ci])
        /\ (CellWritten(ri, ci) = {}) <=> (CellText(LastRows[ri][ci]) = "")

====
